---- MODULE Spec2Model ----
(***************************************************************************)
(* zeck-cli: the module resolver and the module installer of the `use`    *)
(* command (src/lib/commands/use.ts), the conditional instruction engine   *)
(* (src/lib/utils/modifier.ts) with its log store                          *)
(* (src/lib/utils/instructionLog.ts).                                      *)
(*                                                                         *)
(* Strings are sequences of one-character strings.  An optional field that *)
(* is absent (JavaScript `undefined`) is the value Undefined.              *)
(***************************************************************************)
EXTENDS Integers, Sequences, FiniteSets, TLC

VARIABLES
    \* ---- UseCommand.handleModuleSelection (use.ts 209-238)
    catalog,        \* template.modules: sequence of Module records
    selected,       \* what the checkbox prompt returned
    closure,        \* modulesWithIncludes
    visits,         \* the modules addIncludes was called on, in call order
    filtered,       \* filteredModules
    resolved,       \* the value handleModuleSelection returns
    excludedNames,  \* the names of the conflict diagnostic (use.ts 191-196)
    rpc,            \* position inside handleModuleSelection
    \* ---- ModifierResource.processInstructions (modifier.ts 597-627)
    fs,             \* the project tree: path -> content or NoFile
    logs,           \* the records in the log directory
    logDirWritable, \* whether the log directory can be written
    now,            \* the last reading of Date.now()
    pruneCall,      \* the last clearOldLogs call: <<>> or <<its arguments and result>>
    guardCall,      \* the shouldExecuteInstruction call of a caller, likewise
    call,           \* the processInstructions call of a library caller
    \* ---- history of that call, for the claims
    fs0,            \* the tree when the call was made
    attempts,       \* the index each processInstruction call was given
    treesBefore,    \* the tree each processInstruction call started with
    outcomes,       \* what each processInstruction call did
    \* ---- UseCommand.processModules (use.ts 295-344)
    modules,        \* the module list processModules is called with
    moduleConfigs,  \* module name -> what its configuration file holds
    mpc,            \* position inside processModules
    mi,             \* modules the for-of loop has been through
    tasks,          \* the processInstructions calls made, one per module
    modulesFolder,  \* whether <destination>/.modules exists
    notices         \* what the Logger was told about each module

resolveVars == <<catalog, selected, closure, visits, filtered, resolved, excludedNames, rpc>>

batchVars == <<fs, logs, logDirWritable, now, pruneCall, guardCall, call, fs0, attempts, treesBefore, outcomes>>

moduleVars == <<modules, moduleConfigs, mpc, mi, tasks, modulesFolder, notices>>

vars == <<resolveVars, batchVars, moduleVars>>

(***************************************************************************)
(* Bounds of the model.                                                    *)
(***************************************************************************)
\* Resolver inputs: the number of `includes` entries of a whole catalog when
\* the closure is examined, when conflicts are examined and when the order
\* is examined; the number of `excludes` entries likewise; the largest
\* priority.
MaxIncludeEntries == 3
ConflictIncludeEntries == 1
MaxExcludeEntries == 2
OrderIncludeEntries == 1
OrderExcludeEntries == 0
MaxPriority == 1

\* The instructions of one processInstructions call, and the ticks of the
\* clock during it.
MaxBatch == 2
MaxClock == 1

\* The modules processModules is given, and the instructions of one module
\* configuration.
MaxModules == 2
MaxConfigInstructions == 1

\* The pieces a file content is made of, and the times one instruction is
\* applied again, when the actions are examined one by one.
MaxTokens == 3
MaxRepeat == 2

\* The records the log store holds at once, and the days that pass, when
\* the log store is examined.
MaxLogged == 2
MaxLogDays == 1

\* Guards: the length of a file a condition reads, the largest count of a
\* PATTERN_COUNT condition, the number of conditions of a group.
MaxGuardText == 3
MaxCount == 2
MaxGroup == 2

\* ------------------------------------------------------------------------
\* Sequence helpers
\* ------------------------------------------------------------------------
Range(s) == {s[i] : i \in DOMAIN s}

NoDup(s) == \A i, j \in DOMAIN s : i # j => s[i] # s[j]

\* Array.prototype.filter
RECURSIVE FilterSeq(_, _)
FilterSeq(s, keep) ==
    IF s = <<>> THEN <<>>
    ELSE IF Head(s) \in keep THEN <<Head(s)>> \o FilterSeq(Tail(s), keep)
    ELSE FilterSeq(Tail(s), keep)

\* ------------------------------------------------------------------------
\* JavaScript values and strings
\* ------------------------------------------------------------------------
\* `undefined` in the place of a string: a value no string of characters
\* equals.
Undefined == <<"undefined">>

\* A test that takes only '' as absent.
FalsyOnlyEmpty(x) == x = <<>>

\* A test that takes only undefined as absent.
FalsyOnlyUndefined(x) == x = Undefined

\* !x for an optional string: undefined and '' are falsy.
Falsy(x) == x = Undefined \/ x = <<>>

\* x || d
OrElse(x, d) == IF Falsy(x) THEN d ELSE x

NL == "\n"

Whitespace == {" ", "\t", NL, "\r"}

\* String.prototype.startsWith
StartsWith(s, p) == Len(p) <= Len(s) /\ SubSeq(s, 1, Len(p)) = p

\* String.prototype.includes
Includes(s, p) ==
    \E i \in 0..(Len(s) - Len(p)) : SubSeq(s, i + 1, i + Len(p)) = p

\* String.prototype.split with a non-empty separator: `cur` is the piece
\* being read.
RECURSIVE SplitFrom(_, _, _)
SplitFrom(s, sep, cur) ==
    IF Len(s) < Len(sep) THEN <<cur \o s>>
    ELSE IF SubSeq(s, 1, Len(sep)) = sep
         THEN <<cur>> \o SplitFrom(SubSeq(s, Len(sep) + 1, Len(s)), sep, <<>>)
         ELSE SplitFrom(Tail(s), sep, Append(cur, Head(s)))

\* String.prototype.split: with the empty separator, the characters.
Split(s, sep) ==
    IF sep = <<>> THEN [i \in 1..Len(s) |-> <<s[i]>>]
    ELSE SplitFrom(s, sep, <<>>)

\* Array.prototype.join
RECURSIVE Join(_, _)
Join(parts, sep) ==
    IF parts = <<>> THEN <<>>
    ELSE IF Len(parts) = 1 THEN parts[1]
    ELSE parts[1] \o sep \o Join(Tail(parts), sep)

\* String.prototype.trim
RECURSIVE TrimStart(_)
TrimStart(s) ==
    IF s # <<>> /\ Head(s) \in Whitespace THEN TrimStart(Tail(s)) ELSE s

RECURSIVE TrimEnd(_)
TrimEnd(s) ==
    IF s # <<>> /\ s[Len(s)] \in Whitespace
    THEN TrimEnd(SubSeq(s, 1, Len(s) - 1)) ELSE s

Trim(s) == TrimEnd(TrimStart(s))

\* lines.splice(k, 0, x)
SpliceIn(lines, k, x) ==
    SubSeq(lines, 1, k) \o <<x>> \o SubSeq(lines, k + 1, Len(lines))

\* ------------------------------------------------------------------------
\* The project tree and the text actions (modifier.ts 80-196)
\* ------------------------------------------------------------------------
\* A path holds a file's content or NoFile.
NoFile == <<"ENOENT">>

\* A file that is there while readFileSync throws on it (the read is refused).
Unreadable == <<"EACCES">>

\* existsSync
ExistsSync(tree, path) == path \in DOMAIN tree /\ tree[path] # NoFile

\* readFileSync throws on the existing file.
ReadThrows(tree, path) == tree[path] = Unreadable

\* writeFile (modifier.ts 94-97); directories are not modelled.
WriteFile(tree, path, content) == [tree EXCEPT ![path] = content]

\* deleteFile (modifier.ts 104-108)
DeleteFile(tree, path) ==
    IF ExistsSync(tree, path) THEN [tree EXCEPT ![path] = NoFile] ELSE tree

ImportPrefix == <<"i", "m", "p", "o", "r", "t", " ">>

IsImportLine(line) == StartsWith(Trim(line), ImportPrefix)

\* insertImport (modifier.ts 110-128), on the content
InsertImportText(content, importStatement) ==
    LET lines == Split(content, <<NL>>)
        imports == {i \in DOMAIN lines : IsImportLine(lines[i])}
        lastImport == IF imports = {} THEN 0
                      ELSE CHOOSE i \in imports : \A j \in imports : j <= i
    IN Join(SpliceIn(lines, lastImport, importStatement), <<NL>>)

\* The first line that contains the pattern, 0 when there is none.
FirstLineWith(lines, pattern) ==
    LET hits == {i \in DOMAIN lines : Includes(lines[i], pattern)}
    IN IF hits = {} THEN 0 ELSE CHOOSE i \in hits : \A j \in hits : i <= j

\* insertAfter (modifier.ts 130-142), on the content
InsertAfterText(fileContent, pattern, content) ==
    LET lines == Split(fileContent, <<NL>>)
        k == FirstLineWith(lines, pattern)
    IN Join(IF k = 0 THEN lines ELSE SpliceIn(lines, k, content), <<NL>>)

\* An insertBefore that puts the content first when no line matches.
InsertBeforeOrFirst(fileContent, pattern, content) ==
    LET lines == Split(fileContent, <<NL>>)
        k == FirstLineWith(lines, pattern)
    IN Join(SpliceIn(lines, IF k = 0 THEN 0 ELSE k - 1, content), <<NL>>)

\* insertBefore (modifier.ts 144-156), on the content
InsertBeforeText(fileContent, pattern, content) ==
    LET lines == Split(fileContent, <<NL>>)
        k == FirstLineWith(lines, pattern)
    IN Join(IF k = 0 THEN lines ELSE SpliceIn(lines, k - 1, content), <<NL>>)

\* content.replace(pattern, replacement): the first occurrence only.
ReplaceFirstOnly(content, pattern, replacement) ==
    LET parts == Split(content, pattern)
    IN IF Len(parts) = 1 THEN content
       ELSE parts[1] \o replacement \o Join(Tail(parts), pattern)

\* replaceContent (modifier.ts 158-162), on the content
ReplaceContentText(content, pattern, replacement) ==
    Join(Split(content, pattern), replacement)

\* appendToFile (modifier.ts 164-167), on the content
AppendText(currentContent, content) == currentContent \o <<NL>> \o content

\* The position of the first ">" of s, 0 when there is none.
FirstClose(s) ==
    LET hits == {i \in DOMAIN s : s[i] = ">"}
    IN IF hits = {} THEN 0 ELSE CHOOSE i \in hits : \A j \in hits : i <= j

\* The callback of insertProp (modifier.ts 178-193).  In the expression
\* <Name([^>]*)(\/)?> the greedy first group takes every character up to the
\* ">" , a "/" included, so the second group never matches and selfClosing
\* is always undefined.
PropReplacement(componentName, props, newProp) ==
    IF Trim(props) # <<>>
    THEN <<"<">> \o componentName \o props \o <<" ">> \o newProp \o <<">">>
    ELSE <<"<">> \o componentName \o <<" ">> \o newProp \o <<">">>

\* The same replace without the flag g: the first match only.
RECURSIVE ReplaceFirstTag(_, _, _)
ReplaceFirstTag(s, componentName, newProp) ==
    IF s = <<>> THEN <<>>
    ELSE IF StartsWith(s, <<"<">> \o componentName)
    THEN LET rest == SubSeq(s, Len(componentName) + 2, Len(s))
             k == FirstClose(rest)
         IN IF k = 0 THEN s
            ELSE PropReplacement(componentName, SubSeq(rest, 1, k - 1), newProp)
                 \o SubSeq(rest, k + 1, Len(rest))
    ELSE <<Head(s)>> \o ReplaceFirstTag(Tail(s), componentName, newProp)

\* content.replace(componentPattern, callback) with the flag g: every match,
\* left to right, none overlapping.
RECURSIVE ReplaceTags(_, _, _)
ReplaceTags(s, componentName, newProp) ==
    IF s = <<>> THEN <<>>
    ELSE IF StartsWith(s, <<"<">> \o componentName)
    THEN LET rest == SubSeq(s, Len(componentName) + 2, Len(s))
             k == FirstClose(rest)
         IN IF k = 0 THEN s
            ELSE PropReplacement(componentName, SubSeq(rest, 1, k - 1), newProp)
                 \o ReplaceTags(SubSeq(rest, k + 1, Len(rest)), componentName, newProp)
    ELSE <<Head(s)>> \o ReplaceTags(Tail(s), componentName, newProp)

\* insertProp (modifier.ts 169-196), on the content
InsertPropText(content, componentName, propName, propValue) ==
    LET newProp == IF Falsy(propValue) THEN propName
                   ELSE propName \o <<"=", "{">> \o propValue \o <<"}">>
    IN ReplaceTags(content, componentName, newProp)

\* ------------------------------------------------------------------------
\* Conditions (modifier.ts 198-410)
\* ------------------------------------------------------------------------
\* A Condition is [type, value, operator, count, target]: value and target
\* are strings or Undefined, operator is a name or "undefined", count is <<>>
\* (undefined) or <<n>>.  A ModifierContext is [selectedModules, projectRoot,
\* projectName, moduleName, verbose], the last three <<>> (undefined) or <<v>>.

\* compareCount (modifier.ts 349-372)
CompareCount(actualCount, operator, expectedCount) ==
    CASE operator = "NOT_EQUALS" -> actualCount # expectedCount
      [] operator = "GREATER_THAN" -> actualCount > expectedCount
      [] operator = "LESS_THAN" -> actualCount < expectedCount
      [] operator = "GREATER_OR_EQUAL" -> actualCount >= expectedCount
      [] operator = "LESS_OR_EQUAL" -> actualCount <= expectedCount
      [] OTHER -> actualCount = expectedCount

\* A count of the places where the pattern starts, overlapping ones included.
PatternCountOverlapping(content, pattern) ==
    Cardinality({i \in 0..(Len(content) - Len(pattern)) :
                    SubSeq(content, i + 1, i + Len(pattern)) = pattern})

\* content.split(pattern).length - 1
PatternCount(content, pattern) == Len(Split(content, pattern)) - 1

\* A catch of PATTERN_NOT_EXISTS that answers like the one of PATTERN_EXISTS.
ReadErrorFailsClosed(type) == FALSE

\* What the catch of a condition kind answers when the read throws
\* (modifier.ts 246-251, 272-277, 299-304).
ReadErrorPasses(type) == type = "PATTERN_NOT_EXISTS"

\* A target of the FILE kinds that falls back on the path of the instruction.
FileTargetDefaultsToPath(condition, targetPath) == OrElse(condition.target, targetPath)

\* condition.target || condition.value || '' (modifier.ts 308 and 319)
FileTargetOf(condition, targetPath) ==
    OrElse(condition.target, OrElse(condition.value, <<>>))

\* evaluateCondition (modifier.ts 198-335)
EvaluateCondition(condition, context, targetPath, tree) ==
    LET value == OrElse(condition.value, <<>>)
        target == OrElse(condition.target, targetPath)
        fileTarget == FileTargetOf(condition, targetPath)
        expected == IF condition.count = <<>> THEN 0 ELSE condition.count[1]
        operator == IF condition.operator = "undefined" THEN "EQUALS"
                    ELSE condition.operator
    IN CASE condition.type = "MODULE_EXISTS" ->
              IF value \in Range(context.selectedModules)
              THEN [passed |-> TRUE, reason |-> "module is selected"]
              ELSE [passed |-> FALSE, reason |-> "module is not selected"]
         [] condition.type = "MODULE_NOT_EXISTS" ->
              IF value \notin Range(context.selectedModules)
              THEN [passed |-> TRUE, reason |-> "module is not selected"]
              ELSE [passed |-> FALSE, reason |-> "module is selected"]
         [] condition.type = "PATTERN_EXISTS" ->
              IF ~ExistsSync(tree, target)
              THEN [passed |-> FALSE, reason |-> "file does not exist"]
              ELSE IF ReadThrows(tree, target)
              THEN [passed |-> ReadErrorPasses(condition.type), reason |-> "error reading file"]
              ELSE IF Includes(tree[target], value)
              THEN [passed |-> TRUE, reason |-> "pattern found in file"]
              ELSE [passed |-> FALSE, reason |-> "pattern not found in file"]
         [] condition.type = "PATTERN_NOT_EXISTS" ->
              IF ~ExistsSync(tree, target)
              THEN [passed |-> TRUE, reason |-> "file does not exist"]
              ELSE IF ReadThrows(tree, target)
              THEN [passed |-> ReadErrorPasses(condition.type),
                    reason |-> "error reading file (treated as not exists)"]
              ELSE IF ~Includes(tree[target], value)
              THEN [passed |-> TRUE, reason |-> "pattern not found in file"]
              ELSE [passed |-> FALSE, reason |-> "pattern found in file"]
         [] condition.type = "PATTERN_COUNT" ->
              IF ~ExistsSync(tree, target)
              THEN [passed |-> FALSE, reason |-> "file does not exist"]
              ELSE IF ReadThrows(tree, target)
              THEN [passed |-> ReadErrorPasses(condition.type), reason |-> "error reading file"]
              ELSE IF CompareCount(PatternCount(tree[target], value), operator, expected)
              THEN [passed |-> TRUE, reason |-> "pattern count matches"]
              ELSE [passed |-> FALSE, reason |-> "pattern count does not match"]
         [] condition.type = "FILE_EXISTS" ->
              IF ExistsSync(tree, fileTarget)
              THEN [passed |-> TRUE, reason |-> "file exists"]
              ELSE [passed |-> FALSE, reason |-> "file does not exist"]
         [] condition.type = "FILE_NOT_EXISTS" ->
              IF ~ExistsSync(tree, fileTarget)
              THEN [passed |-> TRUE, reason |-> "file does not exist"]
              ELSE [passed |-> FALSE, reason |-> "file exists"]
         [] OTHER -> [passed |-> TRUE, reason |-> "no condition specified"]

\* A ConditionGroup is [conditions, logic], logic "AND", "OR" or "undefined";
\* an instruction without a condition carries NoCondition.
NoCondition == [conditions |-> <<>>, logic |-> "no condition"]

\* A group evaluation that stops at the member that settles the outcome.
EvaluateConditionGroupShortCircuit(group, context, targetPath, tree) ==
    LET logic == IF group.logic = "undefined" THEN "AND" ELSE group.logic
        all == [k \in DOMAIN group.conditions |->
                  EvaluateCondition(group.conditions[k], context, targetPath, tree)]
        settling == {k \in DOMAIN all : all[k].passed = (logic # "AND")}
        last == IF settling = {} THEN Len(all)
                ELSE CHOOSE k \in settling : \A j \in settling : k <= j
    IN [passed |-> IF logic = "AND" THEN settling = {} ELSE settling # {},
        results |-> SubSeq(all, 1, last)]

\* evaluateConditionGroup (modifier.ts 374-389)
EvaluateConditionGroup(group, context, targetPath, tree) ==
    LET logic == IF group.logic = "undefined" THEN "AND" ELSE group.logic
        results == [k \in DOMAIN group.conditions |->
                      EvaluateCondition(group.conditions[k], context, targetPath, tree)]
    IN [passed |-> IF logic = "AND"
                   THEN \A k \in DOMAIN results : results[k].passed
                   ELSE \E k \in DOMAIN results : results[k].passed,
        results |-> results]

\* The same call with every guard taken as passed.
ShouldExecuteAlways(instruction, context, tree) ==
    [should |-> TRUE, results |-> <<>>]

\* shouldExecuteInstruction (modifier.ts 391-410); results is <<>>
\* (undefined) or <<the per-condition results>>.
ShouldExecuteInstruction(instruction, context, tree) ==
    IF instruction.condition = NoCondition
    THEN [should |-> TRUE, results |-> <<>>]
    ELSE LET evaluation == EvaluateConditionGroup(instruction.condition, context,
                                                   instruction.path, tree)
         IN [should |-> evaluation.passed, results |-> <<evaluation.results>>]

\* ------------------------------------------------------------------------
\* The action of an instruction (modifier.ts 503-557)
\* ------------------------------------------------------------------------
\* A throw that comes after the file was opened for writing: the file is
\* left empty.
ThrowAfterTruncate(msg, tree, filePath) ==
    [error |-> msg, tree |-> WriteFile(tree, filePath, <<>>)]

\* The throws of the switch (modifier.ts 517-553) and of readFile
\* (modifier.ts 88-90) come before any write of their action: the tree is
\* the one the action found.
ThrowBeforeWrite(msg, tree, filePath) == [error |-> msg, tree |-> tree]

\* The switch of processInstruction: the error it throws ("" when none) and
\* the tree it leaves.
ApplyAction(instruction, tree) ==
    LET filePath == instruction.path
        content == instruction.content
        pattern == instruction.pattern
        replacement == instruction.replacement
        componentName == instruction.componentName
        propName == instruction.propName
        Fail(msg) == ThrowBeforeWrite(msg, tree, filePath)
        Ok(t) == [error |-> "", tree |-> t]
        \* readFile (modifier.ts 87-92), then the edit and writeFile; `missing`
        \* is a readFile that throws, on no file or on a refused read
        Edit(text) == Ok(WriteFile(tree, filePath, text))
        missing == ~ExistsSync(tree, filePath) \/ ReadThrows(tree, filePath)
    IN CASE instruction.action = "CREATE_FILE" ->
              IF Falsy(content) THEN Fail("Content is required")
              ELSE Ok(WriteFile(tree, filePath, content))
         [] instruction.action = "DELETE_FILE" -> Ok(DeleteFile(tree, filePath))
         [] instruction.action = "INSERT_IMPORT" ->
              IF Falsy(content) THEN Fail("Content is required")
              ELSE IF missing THEN Fail("File not found")
              ELSE Edit(InsertImportText(tree[filePath], content))
         [] instruction.action = "INSERT_AFTER" ->
              IF Falsy(pattern) \/ Falsy(content)
              THEN Fail("Pattern and content are required")
              ELSE IF missing THEN Fail("File not found")
              ELSE Edit(InsertAfterText(tree[filePath], pattern, content))
         [] instruction.action = "INSERT_BEFORE" ->
              IF Falsy(pattern) \/ Falsy(content)
              THEN Fail("Pattern and content are required")
              ELSE IF missing THEN Fail("File not found")
              ELSE Edit(InsertBeforeText(tree[filePath], pattern, content))
         [] instruction.action = "REPLACE_CONTENT" ->
              IF Falsy(pattern) \/ replacement = Undefined
              THEN Fail("Pattern and replacement are required")
              ELSE IF missing THEN Fail("File not found")
              ELSE Edit(ReplaceContentText(tree[filePath], pattern, replacement))
         [] instruction.action = "APPEND_TO_FILE" ->
              IF Falsy(content) THEN Fail("Content is required")
              ELSE IF missing THEN Fail("File not found")
              ELSE Edit(AppendText(tree[filePath], content))
         [] instruction.action = "INSERT_PROP" ->
              IF Falsy(componentName) \/ Falsy(propName)
              THEN Fail("ComponentName and propName are required")
              ELSE IF missing THEN Fail("File not found")
              ELSE Edit(InsertPropText(tree[filePath], componentName, propName,
                                       instruction.propValue))
         [] OTHER -> Fail("Unknown action")

\* ------------------------------------------------------------------------
\* The log store (instructionLog.ts 29-64) and saveInstructionLog
\* (modifier.ts 412-454)
\* ------------------------------------------------------------------------
\* A hash that leaves the timestamp out.
HashWithoutTimestamp(projectName, moduleName, instructionIndex, timestamp) ==
    <<projectName, moduleName, instructionIndex>>

\* generateHash (instructionLog.ts 37-45): twelve hexadecimal digits of the
\* MD5 digest of "project_module_index_timestamp".  The digest is modelled by
\* the tuple it is taken of; two different tuples with one digest are not
\* modelled.
GenerateHash(projectName, moduleName, instructionIndex, timestamp) ==
    <<projectName, moduleName, instructionIndex, timestamp>>

\* saveLog (instructionLog.ts 47-53): one file per hash, overwritten when it
\* exists.  The store is the set of the records on disk.
SaveLog(store, log) == {r \in store : r.hash # log.hash} \cup {log}

\* getLog (instructionLog.ts 55-64): <<>> is null.
GetLog(store, hash) ==
    IF \E r \in store : r.hash = hash
    THEN <<CHOOSE r \in store : r.hash = hash>> ELSE <<>>

\* 24 * 60 * 60 * 1000 (instructionLog.ts 90)
DayMs == 86400000

\* A test that takes a log of exactly the maximal age as old.
IsOldInclusive(nowMs, timestamp, maxAgeMs) == nowMs - timestamp >= maxAgeMs

\* now - log.timestamp > maxAgeMs (instructionLog.ts 95)
IsOld(nowMs, timestamp, maxAgeMs) == nowMs - timestamp > maxAgeMs

\* getAllLogs (instructionLog.ts 66-86), as the set of the records read;
\* every file of the store is one that saveLog wrote.
GetAllLogs(store) == store

\* clearOldLogs (instructionLog.ts 88-109): the store it leaves and the
\* number it returns; unlinkSync succeeds.
ClearOldLogs(store, nowMs, maxAgeDays) ==
    LET old == {log \in GetAllLogs(store) :
                    IsOld(nowMs, log.timestamp, maxAgeDays * DayMs)}
    IN [store |-> {r \in store : \A log \in old : r.hash # log.hash},
        cleared |-> Cardinality(old)]

\* context.projectName || 'unknown'
NameOrUnknown(opt) == IF opt = <<>> \/ opt = <<"">> THEN "unknown" ELSE opt[1]

\* context.verbose || false
VerboseOf(context) == context.verbose = <<TRUE>>

\* The record of saveInstructionLog (modifier.ts 420-450): the instruction is
\* copied without its condition.
InstructionLogRecord(instruction, context, instructionIndex, status, error, conditionResults, timestamp) ==
    [hash |-> GenerateHash(NameOrUnknown(context.projectName),
                           NameOrUnknown(context.moduleName),
                           instructionIndex, timestamp),
     timestamp |-> timestamp,
     projectName |-> NameOrUnknown(context.projectName),
     moduleName |-> NameOrUnknown(context.moduleName),
     instructionIndex |-> instructionIndex,
     instruction |-> [path |-> instruction.path,
                      action |-> instruction.action,
                      content |-> instruction.content,
                      pattern |-> instruction.pattern,
                      replacement |-> instruction.replacement,
                      componentName |-> instruction.componentName,
                      propName |-> instruction.propName,
                      propValue |-> instruction.propValue],
     status |-> status,
     error |-> error,
     conditions |-> conditionResults]

\* A saveInstructionLog that numbers instructions from 1, as the console
\* output does.
SaveInstructionLogOneBased(instruction, context, instructionIndex, status, error, conditionResults, store, timestamp, writable) ==
    IF writable
    THEN [threw |-> FALSE,
          store |-> SaveLog(store,
                        InstructionLogRecord(instruction, context, instructionIndex + 1,
                                             status, error, conditionResults, timestamp))]
    ELSE [threw |-> TRUE, store |-> store]

\* A saveInstructionLog that swallows the error of the write.
SaveInstructionLogSwallowing(instruction, context, instructionIndex, status, error, conditionResults, store, timestamp, writable) ==
    [threw |-> FALSE,
     store |-> IF writable
               THEN SaveLog(store,
                        InstructionLogRecord(instruction, context, instructionIndex,
                                             status, error, conditionResults, timestamp))
               ELSE store]

\* saveInstructionLog (modifier.ts 412-454): the write throws when the log
\* directory cannot be written.
SaveInstructionLog(instruction, context, instructionIndex, status, error, conditionResults, store, timestamp, writable) ==
    IF writable
    THEN [threw |-> FALSE,
          store |-> SaveLog(store,
                        InstructionLogRecord(instruction, context, instructionIndex,
                                             status, error, conditionResults, timestamp))]
    ELSE [threw |-> TRUE, store |-> store]

\* ------------------------------------------------------------------------
\* processInstruction (modifier.ts 456-595)
\* ------------------------------------------------------------------------
\* result is "true" (executed), "false" (skipped) or "throw".
ProcessInstruction(instruction, context, instructionIndex, tree, store, timestamp, writable) ==
    LET verbose == VerboseOf(context)
        evaluation == ShouldExecuteInstruction(instruction, context, tree)
        Save(status, error) ==
            SaveInstructionLog(instruction, context, instructionIndex, status, error,
                               evaluation.results, store, timestamp, writable)
    IN IF ~evaluation.should
       THEN IF verbose
            THEN LET saved == Save("skipped", "")
                 IN [result |-> IF saved.threw THEN "throw" ELSE "false",
                     tree |-> tree, store |-> saved.store]
            ELSE [result |-> "false", tree |-> tree, store |-> store]
       ELSE LET applied == ApplyAction(instruction, tree)
            IN IF applied.error = ""
               THEN IF verbose
                    THEN LET saved == Save("success", "")
                         IN IF ~saved.threw
                            THEN [result |-> "true", tree |-> applied.tree,
                                  store |-> saved.store]
                            ELSE [result |-> "throw", tree |-> applied.tree,
                                  store |-> Save("failed", "log write failed").store]
                    ELSE [result |-> "true", tree |-> applied.tree, store |-> store]
               ELSE IF verbose
                    THEN [result |-> "throw", tree |-> applied.tree,
                          store |-> Save("failed", applied.error).store]
                    ELSE [result |-> "throw", tree |-> applied.tree, store |-> store]

\* ------------------------------------------------------------------------
\* processInstructions (modifier.ts 597-627)
\* ------------------------------------------------------------------------
\* A call of processInstructions is a record [pc, instructions, context, i,
\* executed, skipped]: pc is "running" between two turns of the loop,
\* "returned" once the summary {executed, skipped} is returned and "rejected"
\* when an error left the function.  context is <<>> (the argument was not
\* given) or <<the ModifierContext>>.

\* modifier.ts 601-609: `context.verbose` throws a TypeError when no context
\* was given, before the loop is entered.
ProcessInstructionsEnter(instructions, context) ==
    [pc |-> IF context = <<>> THEN "rejected"
            ELSE IF Len(instructions) = 0 THEN "returned" ELSE "running",
     instructions |-> instructions,
     context |-> context,
     i |-> 0,
     executed |-> 0,
     skipped |-> 0]

\* The end of a turn of the loop: i++ and the test i < instructions.length.
NextTurn(c) ==
    [c EXCEPT !.i = @ + 1,
                 !.pc = IF c.i + 1 < Len(c.instructions)
                        THEN "running" ELSE "returned"]

\* A loop without the try: the error leaves processInstructions.
ThrowEscapes(c) == [c EXCEPT !.pc = "rejected"]

\* A catch that counts the failed instruction nowhere.
ThrowUncounted(c) == NextTurn(c)

\* modifier.ts 614 and 616
TallyReturn(c, result) ==
    NextTurn(IF result = "true" THEN [c EXCEPT !.executed = @ + 1]
             ELSE [c EXCEPT !.skipped = @ + 1])

\* A catch that counts the failed instruction as executed.
CatchCountsExecuted(c) == [c EXCEPT !.executed = @ + 1]

\* The catch of the loop (modifier.ts 618-623)
CatchThrow(c) == [c EXCEPT !.skipped = @ + 1]

TallyThrow(c) == NextTurn(CatchThrow(c))

\* The tree a processInstruction call reads: the tree as it is at the call,
\* not the one the batch started with.
TreeAtStart(current, start) == start

ObservedTree(current, start) == current

\* ------------------------------------------------------------------------
\* Module resolution (use.ts 147-238)
\* ------------------------------------------------------------------------
\* The names of the catalog's modules, in catalog order, and a name that no
\* module of the catalog carries.
CatalogNames == <<"A", "B", "C">>
UnknownName == "Z"
AllNames == Range(CatalogNames) \cup {UnknownName}

\* Module.priority is optional: <<>> is `undefined`, <<p>> is the number p.
PriorityChoices == {<<>>} \cup {<<p>> : p \in 0..MaxPriority}

\* a.priority ?? 0
PriorityOf(m) == IF m.priority = <<>> THEN 0 ELSE m.priority[1]

NameLists(n) ==
    UNION {{s \in [1..k -> AllNames] : NoDup(s)} : k \in 0..n}

RECURSIVE SumLen(_, _)
SumLen(f, i) == IF i = 0 THEN 0 ELSE Len(f[i]) + SumLen(f, i - 1)

\* One list of names per catalog position, at most `total` entries in all.
NameListAssignments(total) ==
    {f \in [DOMAIN CatalogNames -> NameLists(total)] :
        SumLen(f, Len(CatalogNames)) <= total}

MakeCatalog(inc, exc, pri) ==
    [i \in DOMAIN CatalogNames |->
        [name |-> CatalogNames[i], includes |-> inc[i],
         excludes |-> exc[i], priority |-> pri[i]]]

NoPriorities == [i \in DOMAIN CatalogNames |-> <<>>]

CatalogsOf(incEntries, excEntries, priorities) ==
    {MakeCatalog(inc, exc, pri) :
        inc \in NameListAssignments(incEntries),
        exc \in NameListAssignments(excEntries),
        pri \in priorities}

\* The checkbox prompt returns the checked modules in catalog order.
Selections(cat) ==
    {FilterSeq(cat, {cat[i] : i \in S}) : S \in SUBSET (DOMAIN cat)}

ModuleNamesOf(mods) == [i \in DOMAIN mods |-> mods[i].name]

\* moduleMap.get(name): the module of that name, <<>> when there is none
\* (new Map(allModules.map(m => [m.name, m])): the last one of a name wins).
ModuleMapGet(cat, name) ==
    LET hits == {i \in DOMAIN cat : cat[i].name = name}
    IN IF hits = {} THEN <<>>
       ELSE <<cat[CHOOSE i \in hits : \A j \in hits : j <= i]>>

\* addIncludes (use.ts 152-163), over the include list of one module:
\* `final` is finalModules, a Set in insertion order.
RECURSIVE AddIncludesNoRecursion(_, _, _)
AddIncludesNoRecursion(cat, incs, final) ==
    IF incs = <<>> THEN final
    ELSE LET got == ModuleMapGet(cat, Head(incs))
         IN IF got # <<>> /\ got[1] \notin Range(final)
            THEN AddIncludesNoRecursion(cat, Tail(incs), Append(final, got[1]))
            ELSE AddIncludesNoRecursion(cat, Tail(incs), final)

RECURSIVE AddIncludes(_, _, _)
AddIncludes(cat, incs, final) ==
    IF incs = <<>> THEN final
    ELSE LET got == ModuleMapGet(cat, Head(incs))
         IN IF got # <<>> /\ got[1] \notin Range(final)
            THEN AddIncludes(cat, Tail(incs),
                     AddIncludes(cat, got[1].includes, Append(final, got[1])))
            ELSE AddIncludes(cat, Tail(incs), final)

\* selectedModules.forEach(module => addIncludes(module))
RECURSIVE AddIncludesForEach(_, _, _)
AddIncludesForEach(cat, sel, final) ==
    IF sel = <<>> THEN final
    ELSE AddIncludesForEach(cat, Tail(sel),
             AddIncludes(cat, Head(sel).includes, final))

\* addIncludedModules (use.ts 147-175)
AddIncludedModules(sel, cat) == AddIncludesForEach(cat, sel, sel)

\* The same traversal with what it leaves behind: finalModules,
\* addedModuleNames, and the modules addIncludes was called on, in call order.
SetAdd(seq, m) == IF m \in Range(seq) THEN seq ELSE Append(seq, m)

\* A membership test on the names added so far instead of on finalModules.
HasAddedName(st, m) == m.name \in st.added

\* finalModules.has(includedModule) (use.ts 157)
HasModule(st, m) == m \in Range(st.final)

RECURSIVE VisitIncludes(_, _, _)
\* addIncludes(module): the call, then its loop over module.includes.
VisitModule(cat, m, st) == VisitIncludes(cat, m.includes, [st EXCEPT !.visits = Append(@, m.name)])

VisitIncludes(cat, incs, st) ==
    IF incs = <<>> THEN st
    ELSE LET got == ModuleMapGet(cat, Head(incs))
         IN IF got # <<>> /\ ~HasModule(st, got[1])
            THEN VisitIncludes(cat, Tail(incs),
                     VisitModule(cat, got[1],
                         [st EXCEPT !.final = SetAdd(@, got[1]),
                                    !.added = @ \cup {Head(incs)}]))
            ELSE VisitIncludes(cat, Tail(incs), st)

\* selectedModules.forEach(module => addIncludes(module))
RECURSIVE VisitForEach(_, _, _)
VisitForEach(cat, sel, st) ==
    IF sel = <<>> THEN st
    ELSE VisitForEach(cat, Tail(sel), VisitModule(cat, Head(sel), st))

TraverseIncludes(sel, cat) == VisitForEach(cat, sel, [final |-> sel, added |-> {}, visits |-> <<>>])

AddIncludesCalls(sel, cat) == TraverseIncludes(sel, cat).visits

\* A set in which a module dropped itself no longer drops another one.
ExcludedBySurvivors(mods) ==
    LET named == {n \in Range(ModuleNamesOf(mods)) :
                     \E i \in DOMAIN mods : n \in Range(mods[i].excludes)}
    IN {n \in named :
           \E i \in DOMAIN mods :
               n \in Range(mods[i].excludes) /\ mods[i].name \notin named}

\* A set in which the `excludes` of a module never count against itself.
ExcludedByOthers(mods) ==
    {n \in Range(ModuleNamesOf(mods)) :
        \E i \in DOMAIN mods : mods[i].name # n /\ n \in Range(mods[i].excludes)}

\* The set excludedModules of filterExcludedModules (use.ts 178-189).
ExcludedModules(mods) ==
    {n \in Range(ModuleNamesOf(mods)) :
        \E i \in DOMAIN mods : n \in Range(mods[i].excludes)}

\* filterExcludedModules (use.ts 177-199)
RECURSIVE DropNamed(_, _)
DropNamed(mods, names) ==
    IF mods = <<>> THEN <<>>
    ELSE IF Head(mods).name \in names THEN DropNamed(Tail(mods), names)
    ELSE <<Head(mods)>> \o DropNamed(Tail(mods), names)

\* A filter in which a module is only dropped by a module listed before it.
FilterExcludedByEarlier(mods) ==
    DropNamed(mods, {n \in ExcludedModules(mods) :
        \E i, j \in DOMAIN mods :
            i < j /\ mods[j].name = n /\ n \in Range(mods[i].excludes)})

\* A filter that spares a module that a module it keeps includes.
FilterExcludedKeepIncluded(mods) ==
    LET kept == DropNamed(mods, ExcludedModules(mods))
    IN DropNamed(mods, {n \in ExcludedModules(mods) :
                           \A i \in DOMAIN kept : n \notin Range(kept[i].includes)})

\* A filter after which the closure is taken again, from the selected
\* modules that are left.
FilterExcludedAndReclose(mods) ==
    LET kept == DropNamed(mods, ExcludedModules(mods))
        again == AddIncludedModules(FilterSeq(selected, Range(kept)), catalog)
    IN FilterSeq(kept, Range(again))

FilterExcludedModules(mods) == DropNamed(mods, ExcludedModules(mods))

\* Array.prototype.sort with the comparator priorityB - priorityA: the sort
\* is stable (ECMAScript 2019), so an element is placed after every element
\* whose priority is at least its own.
RECURSIVE InsertByPriority(_, _)
InsertByPriority(sorted, m) ==
    IF sorted = <<>> THEN <<m>>
    ELSE IF PriorityOf(Head(sorted)) >= PriorityOf(m)
         THEN <<Head(sorted)>> \o InsertByPriority(Tail(sorted), m)
         ELSE <<m>> \o sorted

RECURSIVE InsertByPriorityUnstable(_, _)
InsertByPriorityUnstable(sorted, m) ==
    IF sorted = <<>> THEN <<m>>
    ELSE IF PriorityOf(Head(sorted)) > PriorityOf(m)
         THEN <<Head(sorted)>> \o InsertByPriorityUnstable(Tail(sorted), m)
         ELSE <<m>> \o sorted

\* The place the sort gives m among the already sorted elements.
SortInsert(sorted, m) == InsertByPriority(sorted, m)

RECURSIVE SortFrom(_, _)
SortFrom(sorted, rest) ==
    IF rest = <<>> THEN sorted
    ELSE SortFrom(SortInsert(sorted, Head(rest)), Tail(rest))

\* sortModulesByPriority (use.ts 201-207)
SortModulesByPriority(mods) == SortFrom(<<>>, mods)

\* ---- handleModuleSelection (use.ts 209-238), one action per statement ----
ResolveStart ==
    /\ selected = <<>>
    /\ closure = <<>>
    /\ visits = <<>>
    /\ filtered = <<>>
    /\ resolved = <<>>
    /\ excludedNames = {}
    /\ rpc = "prompt"

\* use.ts 214-219: the prompt, and the early return on an empty selection.
SelectModules ==
    /\ rpc = "prompt"
    /\ \E sel \in Selections(catalog) :
        /\ selected' = sel
        /\ rpc' = IF Len(sel) = 0 THEN "returnedNoSelection" ELSE "selected"
    /\ UNCHANGED <<catalog, closure, visits, filtered, resolved, excludedNames>>
    /\ UNCHANGED <<batchVars, moduleVars>>

\* use.ts 221
StepAddIncluded ==
    /\ rpc = "selected"
    /\ closure' = AddIncludedModules(selected, catalog)
    /\ visits' = AddIncludesCalls(selected, catalog)
    /\ rpc' = "closed"
    /\ UNCHANGED <<catalog, selected, filtered, resolved, excludedNames>>
    /\ UNCHANGED <<batchVars, moduleVars>>

\* use.ts 222-227: the filter, and the early return when nothing is left.
StepFilterExcluded ==
    /\ rpc = "closed"
    /\ filtered' = FilterExcludedModules(closure)
    /\ excludedNames' = ExcludedModules(closure)
    /\ rpc' = IF Len(filtered') = 0 THEN "returnedAllExcluded" ELSE "filtered"
    /\ UNCHANGED <<catalog, selected, closure, visits, resolved>>
    /\ UNCHANGED <<batchVars, moduleVars>>

\* use.ts 229-237
StepSort ==
    /\ rpc = "filtered"
    /\ resolved' = SortModulesByPriority(filtered)
    /\ rpc' = "returned"
    /\ UNCHANGED <<catalog, selected, closure, visits, filtered, excludedNames>>
    /\ UNCHANGED <<batchVars, moduleVars>>

\* ------------------------------------------------------------------------
\* A library caller of processInstructions (src/lib/modifier.ts 1-14)
\* ------------------------------------------------------------------------
PathF == <<"f">>
PathG == <<"g">>
Paths == {PathF, PathG}

\* The trees a call may find.
InitialTrees ==
    {[p \in Paths |-> IF p = PathF THEN f ELSE g] :
        f \in {NoFile, <<"a", "<", "T", "/", ">">>},
        g \in {NoFile, <<"b">>}}

Instruction(path, action, content, pattern, replacement, condition) ==
    [path |-> path, action |-> action, content |-> content, pattern |-> pattern,
     replacement |-> replacement, componentName |-> Undefined,
     propName |-> Undefined, propValue |-> Undefined, condition |-> condition]

Cond(type, value, target) ==
    [type |-> type, value |-> value, operator |-> "undefined", count |-> <<>>,
     target |-> target]

Group(conditions, logic) == [conditions |-> conditions, logic |-> logic]

\* The instructions a batch is drawn from: creation, deletion and the edits
\* of a file, one of them without a required field, unguarded and guarded.
UnguardedInstructions ==
    {Instruction(PathG, "CREATE_FILE", <<"a">>, Undefined, Undefined, NoCondition),
     Instruction(PathF, "CREATE_FILE", Undefined, Undefined, Undefined, NoCondition),
     Instruction(PathF, "DELETE_FILE", Undefined, Undefined, Undefined, NoCondition),
     Instruction(PathF, "INSERT_IMPORT", ImportPrefix \o <<"x">>, Undefined, Undefined, NoCondition),
     Instruction(PathF, "INSERT_AFTER", <<"b">>, <<"a">>, Undefined, NoCondition),
     Instruction(PathF, "REPLACE_CONTENT", Undefined, <<"a">>, <<>>, NoCondition),
     Instruction(PathF, "APPEND_TO_FILE", <<"b">>, Undefined, Undefined, NoCondition),
     [Instruction(PathF, "INSERT_PROP", Undefined, Undefined, Undefined, NoCondition)
        EXCEPT !.componentName = <<"T">>, !.propName = <<"p">>]}

GuardedInstructions ==
    {Instruction(PathF, "APPEND_TO_FILE", <<"b">>, Undefined, Undefined,
        Group(<<Cond("PATTERN_NOT_EXISTS", <<"b">>, Undefined)>>, "undefined")),
     Instruction(PathG, "APPEND_TO_FILE", <<"b">>, Undefined, Undefined,
        Group(<<Cond("PATTERN_EXISTS", <<"b">>, PathF)>>, "AND")),
     Instruction(PathF, "CREATE_FILE", <<"a">>, Undefined, Undefined,
        Group(<<Cond("FILE_EXISTS", Undefined, PathG)>>, "AND")),
     Instruction(PathG, "DELETE_FILE", Undefined, Undefined, Undefined,
        Group(<<Cond("FILE_NOT_EXISTS", PathF, Undefined)>>, "AND")),
     Instruction(PathG, "CREATE_FILE", <<"b">>, Undefined, Undefined,
        Group(<<Cond("MODULE_EXISTS", <<"A">>, Undefined),
                Cond("MODULE_NOT_EXISTS", <<"B">>, Undefined)>>, "OR")),
     Instruction(PathF, "REPLACE_CONTENT", Undefined, <<"b">>, <<"a">>,
        Group(<<[Cond("PATTERN_COUNT", <<"b">>, Undefined)
                    EXCEPT !.operator = "GREATER_OR_EQUAL", !.count = <<1>>]>>, "AND"))}

Instructions == UnguardedInstructions \cup GuardedInstructions

Batches == UNION {[1..n -> Instructions] : n \in 0..MaxBatch}

Context(selectedModules, verbose) ==
    [selectedModules |-> selectedModules, projectRoot |-> <<"r">>,
     projectName |-> <<"p">>, moduleName |-> <<>>, verbose |-> verbose]

Contexts ==
    {Context(<<<<"B">>>>, <<>>), Context(<<<<"A">>, <<"B">>>>, <<FALSE>>),
     Context(<<<<"B">>>>, <<TRUE>>), Context(<<<<"A">>, <<"B">>>>, <<TRUE>>)}

BatchStart ==
    /\ fs \in InitialTrees
    /\ logs = {}
    /\ logDirWritable = TRUE
    /\ now = 0
    /\ pruneCall = <<>>
    /\ guardCall = <<>>
    /\ call = [pc |-> "idle"]
    /\ fs0 = fs
    /\ attempts = <<>>
    /\ treesBefore = <<>>
    /\ outcomes = <<>>

\* The caller calls processInstructions(instructions, context).
CallProcessInstructions ==
    /\ call.pc = "idle"
    /\ \E instructions \in Batches, context \in Contexts :
        call' = ProcessInstructionsEnter(instructions, <<context>>)
    /\ fs0' = fs
    /\ UNCHANGED <<fs, logs, logDirWritable, now, pruneCall, guardCall, attempts, treesBefore, outcomes>>
    /\ UNCHANGED <<resolveVars, moduleVars>>

\* The clock is read by saveInstructionLog only (modifier.ts 419), which
\* runs under verbose only: a reading is the last one or later.
ClockReadings(context, last) ==
    IF VerboseOf(context) THEN {t \in {last, last + 1} : t <= MaxClock} ELSE {last}

\* One turn of the loop of processInstructions (modifier.ts 610-624): the
\* awaited processInstruction call, then the tally.
LoopTurn ==
    /\ call.pc = "running"
    /\ \E t \in ClockReadings(call.context[1], now) :
        /\ now' = t
        /\ LET done == ProcessInstruction(call.instructions[call.i + 1],
                                          call.context[1], call.i,
                                          ObservedTree(fs, fs0), logs, t,
                                          logDirWritable)
           IN /\ fs' = done.tree
              /\ logs' = done.store
              /\ call' = IF done.result = "throw" THEN TallyThrow(call)
                         ELSE TallyReturn(call, done.result)
              /\ attempts' = Append(attempts, call.i)
              /\ treesBefore' = Append(treesBefore, fs)
              /\ outcomes' = Append(outcomes, done.result)
    /\ UNCHANGED <<logDirWritable, pruneCall, guardCall, fs0>>
    /\ UNCHANGED <<resolveVars, moduleVars>>

BatchIdle ==
    /\ fs = [p \in Paths |-> NoFile]
    /\ logs = {}
    /\ logDirWritable = TRUE
    /\ now = 0
    /\ pruneCall = <<>>
    /\ guardCall = <<>>
    /\ call = [pc |-> "idle"]
    /\ fs0 = fs
    /\ attempts = <<>>
    /\ treesBefore = <<>>
    /\ outcomes = <<>>

ResolveIdle ==
    /\ catalog = <<>>
    /\ selected = <<>>
    /\ closure = <<>>
    /\ visits = <<>>
    /\ filtered = <<>>
    /\ resolved = <<>>
    /\ excludedNames = {}
    /\ rpc = "idle"

ModulesIdle ==
    /\ modules = <<>>
    /\ moduleConfigs = <<>>
    /\ mpc = "idle"
    /\ mi = 0
    /\ tasks = <<>>
    /\ modulesFolder = FALSE
    /\ notices = <<>>

BatchInit == BatchStart /\ ResolveIdle /\ ModulesIdle

BatchNext == CallProcessInstructions \/ LoopTurn

BatchSpec == BatchInit /\ [][BatchNext]_vars

\* The same caller while the log directory cannot be written: saveLog
\* throws (instructionLog.ts 47-53).
LogFailureStart ==
    /\ fs \in InitialTrees
    /\ logs = {}
    /\ logDirWritable = FALSE
    /\ now = 0
    /\ pruneCall = <<>>
    /\ guardCall = <<>>
    /\ call = [pc |-> "idle"]
    /\ fs0 = fs
    /\ attempts = <<>>
    /\ treesBefore = <<>>
    /\ outcomes = <<>>

LogFailureInit == LogFailureStart /\ ResolveIdle /\ ModulesIdle

LogFailureNext == CallProcessInstructions \/ LoopTurn

LogFailureSpec == LogFailureInit /\ [][LogFailureNext]_vars

\* ------------------------------------------------------------------------
\* The actions one by one: a batch that applies one instruction, once or
\* several times, to one file
\* ------------------------------------------------------------------------
\* File contents: concatenations of letters, line ends and opening tags of
\* a component T.
TextTokens ==
    {<<"a">>, <<"b">>, <<NL>>, <<"<", "T", ">">>, <<"<", "T", "/", ">">>}

Texts ==
    {Join(pieces, <<>>) :
        pieces \in UNION {[1..n -> TextTokens] : n \in 0..MaxTokens}}

ActionTrees ==
    {[p \in Paths |-> IF p = PathF THEN f ELSE NoFile] : f \in Texts \cup {NoFile}}

ImportX == ImportPrefix \o <<"x">>

\* Every action, with each of its required fields present, absent or the
\* empty string.
PlainInstructions ==
    {Instruction(PathF, "CREATE_FILE", c, Undefined, Undefined, NoCondition) :
        c \in {Undefined, <<>>, <<"b">>}}
    \cup {Instruction(PathF, "DELETE_FILE", Undefined, Undefined, Undefined, NoCondition)}
    \cup {Instruction(PathF, "INSERT_IMPORT", c, Undefined, Undefined, NoCondition) :
        c \in {Undefined, <<>>, ImportX}}
    \cup {Instruction(PathF, act, c, p, Undefined, NoCondition) :
        act \in {"INSERT_AFTER", "INSERT_BEFORE"},
        c \in {Undefined, <<>>, <<"b">>}, p \in {Undefined, <<>>, <<"a">>}}
    \cup {Instruction(PathF, "REPLACE_CONTENT", Undefined, p, r, NoCondition) :
        p \in {Undefined, <<>>, <<"a">>, <<"a", "a">>},
        r \in {Undefined, <<>>, <<"b">>, <<"a", "a">>}}
    \cup {Instruction(PathF, "APPEND_TO_FILE", c, Undefined, Undefined, NoCondition) :
        c \in {Undefined, <<>>, <<"b">>}}
    \cup {[Instruction(PathF, "INSERT_PROP", Undefined, Undefined, Undefined, NoCondition)
            EXCEPT !.componentName = n, !.propName = p, !.propValue = v] :
        n \in {Undefined, <<>>, <<"T">>}, p \in {Undefined, <<>>, <<"p">>},
        v \in {Undefined, <<"v">>}}

\* The same with a guard that needs the target file.
NeedsTarget == Group(<<Cond("FILE_EXISTS", Undefined, PathF)>>, "AND")

ActionInstructions ==
    PlainInstructions
    \cup {[i EXCEPT !.condition = NeedsTarget] :
            i \in {j \in PlainInstructions : j.action \in {"CREATE_FILE", "APPEND_TO_FILE"}}}

ActionContext == Context(<<>>, <<FALSE>>)

ActionStart ==
    /\ fs \in ActionTrees
    /\ logs = {}
    /\ logDirWritable = TRUE
    /\ now = 0
    /\ pruneCall = <<>>
    /\ guardCall = <<>>
    /\ call = [pc |-> "idle"]
    /\ fs0 = fs
    /\ attempts = <<>>
    /\ treesBefore = <<>>
    /\ outcomes = <<>>

\* processInstructions is called with one instruction, repeated.
CallActionRepeated ==
    /\ call.pc = "idle"
    /\ \E instruction \in ActionInstructions, n \in 1..MaxRepeat :
        call' = ProcessInstructionsEnter([k \in 1..n |-> instruction], <<ActionContext>>)
    /\ fs0' = fs
    /\ UNCHANGED <<fs, logs, logDirWritable, now, pruneCall, guardCall, attempts, treesBefore, outcomes>>
    /\ UNCHANGED <<resolveVars, moduleVars>>

\* ------------------------------------------------------------------------
\* The log store over the days: processInstruction calls that log, and
\* clearOldLogs
\* ------------------------------------------------------------------------
\* Instructions that succeed, are skipped and fail on a tree without files.
LogInstructions ==
    {Instruction(PathG, "DELETE_FILE", Undefined, Undefined, Undefined, NoCondition),
     Instruction(PathG, "DELETE_FILE", Undefined, Undefined, Undefined,
        Group(<<Cond("FILE_EXISTS", Undefined, PathG)>>, "AND")),
     Instruction(PathG, "APPEND_TO_FILE", <<"b">>, Undefined, Undefined, NoCondition)}

LogIndexes == {0, 1}

LogContext == Context(<<>>, <<TRUE>>)

\* A reading of the clock: the last one or a millisecond later.
LogClockReadings(last) == {t \in {last, last + 1} : t % DayMs <= MaxClock}

LogStart ==
    /\ fs = [p \in Paths |-> NoFile]
    /\ logs = {}
    /\ logDirWritable = TRUE
    /\ now = 0
    /\ pruneCall = <<>>
    /\ guardCall = <<>>
    /\ call = [pc |-> "idle"]
    /\ fs0 = fs
    /\ attempts = <<>>
    /\ treesBefore = <<>>
    /\ outcomes = <<>>

\* A caller calls processInstruction(instruction, context, index) with a
\* verbose context (modifier.ts 456-595).
LogAttempt ==
    /\ \E instruction \in LogInstructions, index \in LogIndexes,
          t \in LogClockReadings(now) :
        LET done == ProcessInstruction(instruction, LogContext, index, fs, logs, t,
                                       logDirWritable)
        IN /\ Cardinality(done.store) <= MaxLogged
           /\ fs' = done.tree
           /\ logs' = done.store
           /\ now' = t
    /\ UNCHANGED <<logDirWritable, pruneCall, guardCall, call, fs0, attempts, treesBefore, outcomes>>
    /\ UNCHANGED <<resolveVars, moduleVars>>

DayPasses ==
    /\ now + DayMs <= MaxLogDays * DayMs + MaxClock
    /\ now' = now + DayMs
    /\ UNCHANGED <<fs, logs, logDirWritable, pruneCall, guardCall, call, fs0, attempts, treesBefore, outcomes>>
    /\ UNCHANGED <<resolveVars, moduleVars>>

\* A caller calls clearOldLogs(maxAgeDays) (instructionLog.ts 88-109).
PruneLogs ==
    /\ \E maxAgeDays \in 0..MaxLogDays, t \in LogClockReadings(now) :
        LET done == ClearOldLogs(logs, t, maxAgeDays)
        IN /\ logs' = done.store
           /\ now' = t
           /\ pruneCall' = <<[maxAgeDays |-> maxAgeDays, at |-> t,
                               returned |-> done.cleared]>>
    /\ UNCHANGED <<fs, logDirWritable, guardCall, call, fs0, attempts, treesBefore, outcomes>>
    /\ UNCHANGED <<resolveVars, moduleVars>>

LogInit == LogStart /\ ResolveIdle /\ ModulesIdle

LogNext == LogAttempt \/ DayPasses \/ PruneLogs

LogSpec == LogInit /\ [][LogNext]_vars

ActionInit == ActionStart /\ ResolveIdle /\ ModulesIdle

ActionNext == CallActionRepeated \/ LoopTurn

ActionSpec == ActionInit /\ [][ActionNext]_vars

\* ------------------------------------------------------------------------
\* A caller of shouldExecuteInstruction (modifier.ts 391-410) over the
\* conditions and the trees
\* ------------------------------------------------------------------------
\* The texts of at most MaxGuardText characters over "a" and "b".
GuardTexts == UNION {[1..n -> {"a", "b"}] : n \in 0..MaxGuardText}

\* The file of the instruction is absent, unreadable or holds a text; the
\* other file is absent or holds "a".
GuardTrees ==
    {[p \in Paths |-> IF p = PathF THEN f ELSE g] :
        f \in GuardTexts \cup {NoFile, Unreadable}, g \in {NoFile, <<"a">>}}

\* selectedModules is ["a"].
GuardContext == Context(<<<<"a">>>>, <<>>)

ConditionTypes ==
    {"MODULE_EXISTS", "MODULE_NOT_EXISTS", "PATTERN_EXISTS", "PATTERN_NOT_EXISTS",
     "PATTERN_COUNT", "FILE_EXISTS", "FILE_NOT_EXISTS"}

ConditionOperators ==
    {"EQUALS", "NOT_EQUALS", "GREATER_THAN", "LESS_THAN", "GREATER_OR_EQUAL",
     "LESS_OR_EQUAL"}

\* value is absent, a pattern (also the name of the selected module) or the
\* path of the other file; target is absent or the path of the other file.
GuardValues == {Undefined, <<"a">>, <<"a", "a">>, PathG}

GuardTargets == {Undefined, PathG}

\* Every kind of condition without operator and count, and PATTERN_COUNT
\* with each operator and count, present or absent.
GuardConditions ==
    {Cond(type, value, target) :
        type \in ConditionTypes, value \in GuardValues, target \in GuardTargets}
    \cup {[Cond("PATTERN_COUNT", value, target) EXCEPT !.operator = op, !.count = <<n>>] :
            value \in GuardValues, target \in GuardTargets,
            op \in ConditionOperators \cup {"undefined"}, n \in 0..MaxCount}
    \cup {[Cond("PATTERN_COUNT", value, Undefined) EXCEPT !.operator = op] :
            value \in GuardValues, op \in ConditionOperators}

\* The members of the longer groups: one that passes, one that fails and
\* two that follow the tree.
GroupMembers ==
    {Cond("MODULE_EXISTS", <<"a">>, Undefined),
     Cond("MODULE_NOT_EXISTS", <<"a">>, Undefined),
     Cond("PATTERN_EXISTS", <<"a">>, Undefined),
     Cond("FILE_NOT_EXISTS", Undefined, PathG)}

GuardGroups ==
    {Group(<<c>>, "undefined") : c \in GuardConditions}
    \cup {Group(members, logic) :
            members \in UNION {[1..n -> GroupMembers] : n \in 0..MaxGroup},
            logic \in {"undefined", "AND", "OR"}}

\* An instruction on the file f, with a guard or without one.
GuardedBy(group) ==
    Instruction(PathF, "DELETE_FILE", Undefined, Undefined, Undefined, group)

GuardStart ==
    /\ fs \in GuardTrees
    /\ logs = {}
    /\ logDirWritable = TRUE
    /\ now = 0
    /\ pruneCall = <<>>
    /\ guardCall = <<>>
    /\ call = [pc |-> "idle"]
    /\ fs0 = fs
    /\ attempts = <<>>
    /\ treesBefore = <<>>
    /\ outcomes = <<>>

\* A caller calls shouldExecuteInstruction(instruction, context), once.
CallShouldExecute ==
    /\ guardCall = <<>>
    /\ \E group \in GuardGroups \cup {NoCondition} :
        guardCall' = <<[instruction |-> GuardedBy(group),
                        context |-> GuardContext,
                        returned |-> ShouldExecuteInstruction(GuardedBy(group),
                                                              GuardContext, fs)]>>
    /\ UNCHANGED <<fs, logs, logDirWritable, now, pruneCall, call, fs0, attempts, treesBefore, outcomes>>
    /\ UNCHANGED <<resolveVars, moduleVars>>

ConditionInit == GuardStart /\ ResolveIdle /\ ModulesIdle

ConditionNext == CallShouldExecute

ConditionSpec == ConditionInit /\ [][ConditionNext]_vars

ClosureNext == SelectModules \/ StepAddIncluded

ConflictNext == SelectModules \/ StepAddIncluded \/ StepFilterExcluded

ResolveNext == SelectModules \/ StepAddIncluded \/ StepFilterExcluded \/ StepSort

\* Catalogs that exercise `includes` alone.
ClosureInit ==
    /\ catalog \in CatalogsOf(MaxIncludeEntries, 0, {NoPriorities})
    /\ ResolveStart /\ BatchIdle /\ ModulesIdle

\* Catalogs that exercise `excludes` over a closure.
ConflictInit ==
    /\ catalog \in CatalogsOf(ConflictIncludeEntries, MaxExcludeEntries, {NoPriorities})
    /\ ResolveStart /\ BatchIdle /\ ModulesIdle

\* Catalogs that exercise `priority`.
OrderInit ==
    /\ catalog \in CatalogsOf(OrderIncludeEntries, OrderExcludeEntries,
                              [DOMAIN CatalogNames -> PriorityChoices])
    /\ ResolveStart /\ BatchIdle /\ ModulesIdle

ClosureSpec == ClosureInit /\ [][ClosureNext]_vars
ConflictSpec == ConflictInit /\ [][ConflictNext]_vars
OrderSpec == OrderInit /\ [][ResolveNext]_vars

\* ------------------------------------------------------------------------
\* processModules and cleanupModulesFolder (use.ts 295-344)
\* ------------------------------------------------------------------------
\* The project directory, and path.join of a directory and a relative path
\* without `.` or `..` segments (path.ts 18-20).
Destination == <<"r">>

PathJoin(dir, relativePath) == dir \o <<"/">> \o relativePath

\* The instructions a module configuration is made of: paths are relative to
\* the project, and an instruction may carry a condition.
ConfigInstructions ==
    {Instruction(PathF, "CREATE_FILE", <<"a">>, Undefined, Undefined, NoCondition),
     Instruction(PathF, "CREATE_FILE", <<"a">>, Undefined, Undefined,
        Group(<<Cond("MODULE_EXISTS", <<"Z">>, Undefined)>>, "AND")),
     Instruction(PathG, "DELETE_FILE", Undefined, Undefined, Undefined,
        Group(<<Cond("FILE_EXISTS", Undefined, PathF)>>, "AND"))}

\* What is found at module.path: nothing, a file that is not a JSON object
\* with an `instructions` array, or a ModuleInstructions object.
ConfigChoices ==
    {[kind |-> "missing", instructions |-> <<>>],
     [kind |-> "corrupt", instructions |-> <<>>]}
    \cup {[kind |-> "ok", instructions |-> seq] :
            seq \in UNION {[1..n -> ConfigInstructions] : n \in 0..MaxConfigInstructions}}

\* The module lists of a call: downloadAndSetup calls processModules when
\* at least one module is selected (use.ts 263-265).
ModuleLists ==
    {seq \in UNION {[1..n -> Range(CatalogNames)] : n \in 1..MaxModules} : NoDup(seq)}

\* The object literal of the map callback (use.ts 311-320): it has no
\* `condition` property.
MapInstruction(destination, inst) ==
    [path |-> PathJoin(destination, inst.path),
     action |-> inst.action,
     content |-> inst.content,
     pattern |-> inst.pattern,
     replacement |-> inst.replacement,
     componentName |-> inst.componentName,
     propName |-> inst.propName,
     propValue |-> inst.propValue,
     condition |-> NoCondition]

MapInstructions(destination, config) ==
    [k \in DOMAIN config |-> MapInstruction(destination, config[k])]

ModulesStart ==
    /\ modules \in ModuleLists
    /\ moduleConfigs \in [Range(modules) -> ConfigChoices]
    /\ mpc = "loop"
    /\ mi = 0
    /\ tasks = <<>>
    /\ modulesFolder \in BOOLEAN
    /\ notices = <<>>

\* One turn of the for-of loop of processModules (use.ts 298-328).  The
\* call of processInstructions (use.ts 322) is given the instructions only
\* and is not awaited: the promise it returns is kept in `tasks`, and the
\* loop goes on at once.
ProcessModule ==
    /\ mpc = "loop"
    /\ mi < Len(modules)
    /\ LET module == modules[mi + 1]
           config == moduleConfigs[module]
       IN CASE config.kind = "missing" ->
                 /\ notices' = Append(notices, <<module, "configuration not found">>)
                 /\ tasks' = tasks
            [] config.kind = "corrupt" ->
                 /\ notices' = Append(notices, <<module, "failed to install">>)
                 /\ tasks' = tasks
            [] OTHER ->
                 /\ tasks' = Append(tasks,
                        [module |-> module,
                         call |-> ProcessInstructionsEnter(
                                     MapInstructions(Destination, config.instructions),
                                     <<>>)])
                 /\ notices' = Append(notices, <<module, "installed successfully">>)
    /\ mi' = mi + 1
    /\ mpc' = IF mi + 1 < Len(modules) THEN "loop" ELSE "cleanup"
    /\ UNCHANGED <<modules, moduleConfigs, modulesFolder>>
    /\ UNCHANGED <<resolveVars, batchVars>>

\* cleanupModulesFolder (use.ts 333-344), after the loop (use.ts 330).
CleanupModulesFolder ==
    /\ mpc = "cleanup"
    /\ modulesFolder' = FALSE
    /\ mpc' = "returned"
    /\ UNCHANGED <<modules, moduleConfigs, mi, tasks, notices>>
    /\ UNCHANGED <<resolveVars, batchVars>>

\* A rejected promise that nothing handles (use.ts 322): the runtime may end
\* the process at the first suspension of processModules, which is the
\* cleanup; the removal of the folder may or may not have been done.
UnhandledRejection ==
    /\ mpc = "cleanup"
    /\ \E k \in DOMAIN tasks : tasks[k].call.pc = "rejected"
    /\ mpc' = "crashed"
    /\ modulesFolder' \in {modulesFolder, FALSE}
    /\ UNCHANGED <<modules, moduleConfigs, mi, tasks, notices>>
    /\ UNCHANGED <<resolveVars, batchVars>>

ModulesInit == ModulesStart /\ ResolveIdle /\ BatchIdle

ModulesNext == ProcessModule \/ CleanupModulesFolder \/ UnhandledRejection

ModulesSpec == ModulesInit /\ [][ModulesNext]_vars

(***************************************************************************)
(* Claims                                                                  *)
(***************************************************************************)
CatalogNameSet(cat) == Range(ModuleNamesOf(cat))

\* S is closed under `includes`, names outside the catalog being ignored.
ClosedUnderIncludes(S, cat) ==
    \A i \in DOMAIN cat :
        cat[i].name \in S =>
            \A n \in Range(cat[i].includes) : n \in CatalogNameSet(cat) => n \in S

\* C1: addIncludedModules returns, without duplicates, exactly the least set
\* of catalog modules that contains the selection and is closed under
\* `includes` restricted to the names of the catalog.
C1_ClosureIsLeastClosedSet ==
    rpc = "closed" =>
        LET C == Range(ModuleNamesOf(closure))
            Sel == Range(ModuleNamesOf(selected))
        IN /\ NoDup(ModuleNamesOf(closure))
           /\ Range(closure) \subseteq Range(catalog)
           /\ Sel \subseteq C
           /\ ClosedUnderIncludes(C, catalog)
           /\ \A T \in SUBSET CatalogNameSet(catalog) :
                (Sel \subseteq T /\ ClosedUnderIncludes(T, catalog)) => C \subseteq T

\* One selected module whose closure holds a module it includes only
\* transitively, with an include of a name the catalog does not have.
C1_Witness ==
    /\ rpc = "closed"
    /\ Len(selected) = 1
    /\ Len(closure) = 3
    /\ closure[3].name \notin Range(selected[1].includes)
    /\ \E i \in DOMAIN closure : UnknownName \in Range(closure[i].includes)

\* C2: after filterExcludedModules no remaining module is named in the
\* `excludes` of a module of the closure, the remaining modules exclude none
\* of each other, every dropped module is in the diagnostic, and a module
\* that no module of the closure excludes is kept.
C2_NoExcludedModuleRemains ==
    rpc \in {"filtered", "returnedAllExcluded"} =>
        /\ \A i \in DOMAIN filtered : \A j \in DOMAIN closure :
            filtered[i].name \notin Range(closure[j].excludes)
        /\ \A i, j \in DOMAIN filtered :
            filtered[i].name \notin Range(filtered[j].excludes)
        /\ \A j \in DOMAIN closure :
            \/ closure[j] \in Range(filtered)
            \/ /\ closure[j].name \in excludedNames
               /\ \E k \in DOMAIN closure :
                    closure[j].name \in Range(closure[k].excludes)

\* X and Y are both selected, X excludes Y, nothing excludes X: X stays and
\* Y is dropped.
C2_Witness ==
    /\ rpc = "filtered"
    /\ \E x, y \in Range(selected) :
        /\ y.name \in Range(x.excludes)
        /\ \A k \in DOMAIN closure : x.name \notin Range(closure[k].excludes)
        /\ x \in Range(filtered)
        /\ y \notin Range(filtered)
        /\ y.name \in excludedNames

\* The position of module m in the sequence mods.
IndexIn(mods, m) == CHOOSE i \in DOMAIN mods : mods[i] = m

\* A missing priority counts as 0.
PriorityOrZero(m) == IF Len(m.priority) = 0 THEN 0 ELSE m.priority[1]

\* C3: the resolved list holds the filtered modules by priority descending,
\* and modules of equal priority keep the relative order they have in the
\* closure sequence, which starts with the selection in selection order.
C3_SortedByPriorityStable ==
    rpc = "returned" =>
        /\ Len(resolved) = Len(filtered)
        /\ Range(resolved) = Range(filtered)
        /\ SubSeq(closure, 1, Len(selected)) = selected
        /\ \A i, j \in DOMAIN resolved :
            i < j =>
                /\ PriorityOrZero(resolved[i]) >= PriorityOrZero(resolved[j])
                /\ PriorityOrZero(resolved[i]) = PriorityOrZero(resolved[j])
                    => IndexIn(closure, resolved[i]) < IndexIn(closure, resolved[j])

\* The sort moved a module, and a module without priority stays ahead of a
\* later module of priority 0.
C3_Witness ==
    /\ rpc = "returned"
    /\ resolved # filtered
    /\ \E i, j \in DOMAIN resolved :
        /\ i < j
        /\ resolved[i].priority = <<>>
        /\ resolved[j].priority = <<0>>
        /\ IndexIn(closure, resolved[i]) < IndexIn(closure, resolved[j])
    /\ Len(closure) > Len(selected)

\* ------------------------------------------------------------------------
\* Claims about a processInstructions call
\* ------------------------------------------------------------------------
\* The turns the call has been through, and what turn k was about.
Turns == 1..Len(outcomes)

InstructionOf(k) == call.instructions[k]

TreeAfter(k) == IF k < Len(outcomes) THEN treesBefore[k + 1] ELSE fs

GuardFails(k) ==
    /\ InstructionOf(k).condition # NoCondition
    /\ ~EvaluateConditionGroup(InstructionOf(k).condition, call.context[1],
                               InstructionOf(k).path, treesBefore[k]).passed

\* C4: an instruction whose condition group evaluates to not passed makes
\* processInstruction return false and leaves every file of the tree as it
\* was before the call.
C4_FailedGuardSkipsAndLeavesTree ==
    \A k \in Turns :
        GuardFails(k) => outcomes[k] = "false" /\ TreeAfter(k) = treesBefore[k]

\* A guard failed on an instruction whose action would have changed the tree.
C4_Witness ==
    \E k \in Turns :
        /\ GuardFails(k)
        /\ ApplyAction(InstructionOf(k), treesBefore[k]).error = ""
        /\ ApplyAction(InstructionOf(k), treesBefore[k]).tree # treesBefore[k]

\* C5: processInstructions gives processInstruction the indices 0, 1, 2, ...
\* one after the other, each once; an instruction that throws does not end
\* the call, which is never left by an error and returns its summary exactly
\* when the last index has been through.
C5_EveryInstructionAttemptedInOrder ==
    call.pc # "idle" =>
        /\ call.pc \in {"running", "returned"}
        /\ attempts = [k \in 1..call.i |-> k - 1]
        /\ call.i <= Len(call.instructions)
        /\ (call.pc = "returned") <=> (call.i = Len(call.instructions))
        /\ call.executed + call.skipped = call.i

\* The first instruction threw, the second was applied, the call returned.
C5_Witness ==
    /\ call.pc = "returned"
    /\ Len(outcomes) = 2
    /\ outcomes[1] = "throw"
    /\ outcomes[2] = "true"

StatusOf(outcome) ==
    CASE outcome = "true" -> "success"
      [] outcome = "false" -> "skipped"
      [] outcome = "throw" -> "failed"

RecordsOfTurn(k) == {r \in logs : r.instructionIndex = attempts[k]}

\* After the turns so far the store holds one record for each of them, with
\* the turn's index and the status of its outcome, and nothing else.
LogReflectsAttempts ==
    /\ \A k \in Turns :
          /\ Cardinality(RecordsOfTurn(k)) = 1
          /\ \A r \in RecordsOfTurn(k) : r.status = StatusOf(outcomes[k])
    /\ Cardinality(logs) = Len(outcomes)

CountOf(outcome) == Cardinality({k \in Turns : outcomes[k] = outcome})

\* C7 as stated: in the summary `skipped` is the number of instructions
\* whose guard did not pass and `executed` the number of those applied, a
\* failed instruction being in neither.
C7_FailedCountedInNeither ==
    call.pc = "returned" =>
        /\ call.executed = CountOf("true")
        /\ call.skipped = CountOf("false")

\* C7, amended: `executed` is the number of instructions applied, and
\* `skipped` the number of those whose guard did not pass plus the number
\* of those that threw.
C7_FailedCountedAsSkipped ==
    call.pc = "returned" =>
        /\ call.executed = CountOf("true")
        /\ call.skipped = CountOf("false") + CountOf("throw")

\* A returned call with a failed and a guarded-out instruction.
C7_Witness ==
    /\ call.pc = "returned"
    /\ CountOf("throw") = 1
    /\ CountOf("false") = 1

\* The tree that the instructions applied among the first k turns produce
\* from the tree the batch started with.
RECURSIVE TreeProducedBy(_)
TreeProducedBy(k) ==
    IF k = 0 THEN fs0
    ELSE IF outcomes[k] = "true"
         THEN ApplyAction(InstructionOf(k), TreeProducedBy(k - 1)).tree
         ELSE TreeProducedBy(k - 1)

\* C8: instruction j is guarded and applied on the tree produced by the
\* instructions applied before it in the batch: it is skipped exactly when
\* its guard fails on that tree, applied only when its action succeeds on
\* that tree, and the tree after the turns is the one so produced.
C8_LaterInstructionSeesEarlierEffects ==
    call.pc \in {"running", "returned"} =>
        /\ \A j \in Turns :
              LET seen == TreeProducedBy(j - 1)
                  guard == ShouldExecuteInstruction(InstructionOf(j),
                                                    call.context[1], seen)
              IN /\ (outcomes[j] = "false") <=> ~guard.should
                 /\ (outcomes[j] = "true") <=>
                        (guard.should /\ ApplyAction(InstructionOf(j), seen).error = "")
        /\ fs = TreeProducedBy(Len(outcomes))

\* The guard of the second instruction was decided by what the first one
\* wrote: on the tree the batch started with it would have gone the other
\* way.
C8_Witness ==
    /\ Len(outcomes) = 2
    /\ outcomes[1] = "true"
    /\ InstructionOf(2).condition # NoCondition
    /\ ShouldExecuteInstruction(InstructionOf(2), call.context[1], fs0).should
          # ShouldExecuteInstruction(InstructionOf(2), call.context[1],
                                     treesBefore[2]).should

\* ------------------------------------------------------------------------
\* Claims about processModules
\* ------------------------------------------------------------------------
\* Every instruction of the call has been through processInstruction.
AllInstructionsFinished(c) == c.pc = "returned" /\ c.i = Len(c.instructions)

\* C9: when processModules goes on to the next module, and when the
\* configuration folder has been cleaned up, every instruction of every
\* module handed to the executor so far has finished.
C9_ModulesRunOneAtATime ==
    \A k \in DOMAIN tasks :
        (k < Len(tasks) \/ mpc = "returned") =>
            (Len(tasks[k].call.instructions) > 0 =>
                AllInstructionsFinished(tasks[k].call))

\* C10: an instruction that the module configuration gives a condition is
\* handed to processInstructions with that condition, and the call is given
\* an execution context.
C10_ConditionAndContextHandedOver ==
    \A k \in DOMAIN tasks :
        LET config == moduleConfigs[tasks[k].module].instructions
            given == tasks[k].call
        IN \A j \in DOMAIN config :
              config[j].condition # NoCondition =>
                  /\ given.context # <<>>
                  /\ given.instructions[j].condition = config[j].condition

\* C11: when the configuration of a module is missing or cannot be parsed,
\* every other module of the list, before and after it, has had its
\* instructions processed by the time processModules returns.
C11_OtherModulesStillProcessed ==
    (/\ mpc = "returned"
     /\ \E bad \in Range(modules) : moduleConfigs[bad].kind # "ok") =>
        \A name \in Range(modules) :
            (/\ moduleConfigs[name].kind = "ok"
             /\ Len(moduleConfigs[name].instructions) > 0) =>
                \E k \in DOMAIN tasks :
                    /\ tasks[k].module = name
                    /\ AllInstructionsFinished(tasks[k].call)

\* ------------------------------------------------------------------------
\* Claims about the actions
\* ------------------------------------------------------------------------
ReadDependent(action) ==
    action \in {"INSERT_IMPORT", "INSERT_AFTER", "INSERT_BEFORE", "REPLACE_CONTENT",
                "APPEND_TO_FILE", "INSERT_PROP"}

\* A field that is not given, or given as the empty string.
NotGiven(x) == x \in {Undefined, <<>>}

\* A field the action requires is not given; for the replacement of
\* REPLACE_CONTENT the empty string is a value.
RequiredFieldMissing(ins) ==
    CASE ins.action \in {"CREATE_FILE", "INSERT_IMPORT", "APPEND_TO_FILE"} ->
            NotGiven(ins.content)
      [] ins.action \in {"INSERT_AFTER", "INSERT_BEFORE"} ->
            NotGiven(ins.pattern) \/ NotGiven(ins.content)
      [] ins.action = "REPLACE_CONTENT" ->
            NotGiven(ins.pattern) \/ ins.replacement = Undefined
      [] ins.action = "INSERT_PROP" ->
            NotGiven(ins.componentName) \/ NotGiven(ins.propName)
      [] OTHER -> FALSE

TargetMissing(k) == ~ExistsSync(treesBefore[k], InstructionOf(k).path)

\* Turn k applied its instruction to an existing file, all fields given.
AppliedToFile(k, action) ==
    /\ InstructionOf(k).action = action
    /\ ~GuardFails(k)
    /\ ~RequiredFieldMissing(InstructionOf(k))
    /\ ~TargetMissing(k)

TextBefore(k) == treesBefore[k][InstructionOf(k).path]

TextAfter(k) == TreeAfter(k)[InstructionOf(k).path]

OnlyTargetChanged(k) ==
    \A p \in Paths : p # InstructionOf(k).path => TreeAfter(k)[p] = treesBefore[k][p]

\* C12: an instruction that its guard does not skip (C4) makes
\* processInstruction throw, and so not report executed, when a field its
\* action requires is missing, and when its action reads the target and the
\* target does not exist; the tree is then as before.
C12_MissingFieldOrFileThrows ==
    \A k \in Turns :
        (/\ ~GuardFails(k)
         /\ \/ RequiredFieldMissing(InstructionOf(k))
            \/ ReadDependent(InstructionOf(k).action) /\ TargetMissing(k)) =>
            /\ outcomes[k] = "throw"
            /\ TreeAfter(k) = treesBefore[k]

\* A guarded append without content on an existing file, and, in another
\* behaviour, a complete INSERT_PROP on a missing file; here the first.
C12_Witness ==
    \E k \in Turns :
        /\ InstructionOf(k).condition # NoCondition
        /\ ~GuardFails(k)
        /\ RequiredFieldMissing(InstructionOf(k))
        /\ ~TargetMissing(k)
        /\ outcomes[k] = "throw"

NoLineHas(text, pattern) ==
    \A i \in DOMAIN Split(text, <<NL>>) : ~Includes(Split(text, <<NL>>)[i], pattern)

\* C13: INSERT_AFTER and INSERT_BEFORE whose pattern is in no line of the
\* file, and REPLACE_CONTENT whose pattern does not occur in the file, return
\* true and leave the tree as it was, each time they are applied.
C13_NoMatchLeavesFile ==
    \A k \in Turns :
        (\/ /\ \/ AppliedToFile(k, "INSERT_AFTER")
               \/ AppliedToFile(k, "INSERT_BEFORE")
            /\ NoLineHas(TextBefore(k), InstructionOf(k).pattern)
         \/ /\ AppliedToFile(k, "REPLACE_CONTENT")
            /\ ~Includes(TextBefore(k), InstructionOf(k).pattern)) =>
            /\ outcomes[k] = "true"
            /\ TreeAfter(k) = treesBefore[k]

\* INSERT_BEFORE applied twice to a file of several lines, none with the
\* pattern.
C13_Witness ==
    /\ call.pc = "returned"
    /\ Len(outcomes) = 2
    /\ AppliedToFile(2, "INSERT_BEFORE")
    /\ NoLineHas(TextBefore(2), InstructionOf(2).pattern)
    /\ Len(Split(TextBefore(2), <<NL>>)) > 1
    /\ TextBefore(2) # <<NL>>

\* The text read from left to right: where the pattern starts, the
\* replacement is written and the reading goes on after the pattern;
\* elsewhere the character is kept.
RECURSIVE ScanReplace(_, _, _)
ScanReplace(text, pattern, replacement) ==
    IF text = <<>> THEN <<>>
    ELSE IF StartsWith(text, pattern)
    THEN replacement \o ScanReplace(SubSeq(text, Len(pattern) + 1, Len(text)),
                                    pattern, replacement)
    ELSE <<Head(text)>> \o ScanReplace(Tail(text), pattern, replacement)

\* C14: REPLACE_CONTENT writes the text in which every occurrence of the
\* pattern, found from left to right without overlap, is the replacement,
\* every other character is kept and the replacements are not read again.
C14_ReplacesEveryOccurrence ==
    \A k \in Turns :
        AppliedToFile(k, "REPLACE_CONTENT") =>
            /\ outcomes[k] = "true"
            /\ TextAfter(k) = ScanReplace(TextBefore(k), InstructionOf(k).pattern,
                                          InstructionOf(k).replacement)
            /\ OnlyTargetChanged(k)

\* "a" replaced by "aa" in a text with two "a" and another character.
C14_Witness ==
    \E k \in Turns :
        /\ AppliedToFile(k, "REPLACE_CONTENT")
        /\ InstructionOf(k).pattern = <<"a">>
        /\ InstructionOf(k).replacement = <<"a", "a">>
        /\ PatternCount(TextBefore(k), <<"a">>) = 2
        /\ Len(TextBefore(k)) > 2

\* What INSERT_PROP puts in a tag, with the space before it.
GivenProp(ins) ==
    <<" ">> \o (IF ins.propValue = Undefined THEN ins.propName
                ELSE ins.propName \o <<"=", "{">> \o ins.propValue \o <<"}">>)

TagOpen(ins) == <<"<">> \o ins.componentName

\* The text is cut at every ">": a piece that is closed by a ">" and holds
\* the opening of a tag of the component is such a tag, from its first
\* opening on.  The piece with the attribute at its end (attributes that
\* are blank are dropped):
PieceWithProp(piece, ins) ==
    LET parts == Split(piece, TagOpen(ins))
        props == Join(Tail(parts), TagOpen(ins))
    IN parts[1] \o TagOpen(ins)
        \o (IF Trim(props) = <<>> THEN <<>> ELSE props) \o GivenProp(ins)

IsTagPiece(pieces, i, ins) == i < Len(pieces) /\ Includes(pieces[i], TagOpen(ins))

\* The text in which the tags whose number is in `chosen` have the
\* attribute.
WithPropIn(text, ins, chosen) ==
    LET pieces == Split(text, <<">">>)
    IN Join([i \in DOMAIN pieces |->
                IF i \in chosen /\ IsTagPiece(pieces, i, ins)
                THEN PieceWithProp(pieces[i], ins) ELSE pieces[i]], <<">">>)

TagPieces(text, ins) ==
    {i \in DOMAIN Split(text, <<">">>) : IsTagPiece(Split(text, <<">">>), i, ins)}

FirstTagPiece(text, ins) ==
    {i \in TagPieces(text, ins) : \A j \in TagPieces(text, ins) : i <= j}

\* C15 as stated: only the first opening tag of the component receives the
\* attribute, the later ones and all other text staying as they were.
C15_OnlyFirstTagChanged ==
    \A k \in Turns :
        AppliedToFile(k, "INSERT_PROP") =>
            /\ outcomes[k] = "true"
            /\ TextAfter(k) = WithPropIn(TextBefore(k), InstructionOf(k),
                                         FirstTagPiece(TextBefore(k), InstructionOf(k)))
            /\ OnlyTargetChanged(k)

\* C15, amended: every opening tag of the component receives the attribute,
\* just before its ">", and all other text stays as it was.
C15_EveryTagChanged ==
    \A k \in Turns :
        AppliedToFile(k, "INSERT_PROP") =>
            /\ outcomes[k] = "true"
            /\ TextAfter(k) = WithPropIn(TextBefore(k), InstructionOf(k),
                                         TagPieces(TextBefore(k), InstructionOf(k)))
            /\ OnlyTargetChanged(k)

\* A file with two opening tags of the component and other text.
C15_Witness ==
    \E k \in Turns :
        /\ AppliedToFile(k, "INSERT_PROP")
        /\ Cardinality(TagPieces(TextBefore(k), InstructionOf(k))) = 2
        /\ Includes(TextBefore(k), <<"a">>)
        /\ TextAfter(k) # TextBefore(k)

\* ------------------------------------------------------------------------
\* Claims about the log store
\* ------------------------------------------------------------------------
\* The step is a clearOldLogs call that changed something it returns or
\* keeps.
PruneStep == pruneCall' # pruneCall

AgeAtPrune(r) == pruneCall'[1].at - r.timestamp

MaxAgeAtPrune == pruneCall'[1].maxAgeDays * DayMs

RemovedByPrune(r) == PruneStep /\ GetLog(logs', r.hash) = <<>>

\* The catalog names reached from the names S along `includes`, in at most
\* n further steps.
RECURSIVE ReachedFrom(_, _, _)
ReachedFrom(cat, S, n) ==
    IF n = 0 THEN S
    ELSE ReachedFrom(cat,
             S \cup UNION {Range(cat[i].includes) \cap CatalogNameSet(cat) :
                              i \in {j \in DOMAIN cat : cat[j].name \in S}},
             n - 1)

\* A chain of `includes` leads from module m back to m.
OnIncludeCycle(cat, m) ==
    m.name \in ReachedFrom(cat, Range(m.includes) \cap CatalogNameSet(cat), Len(cat))

\* C17: addIncludedModules returns whatever the `includes` of the catalog
\* are, cycles included, and addIncludes is called at most once on a module:
\* exactly once on every module of the closure, so at most as many times as
\* the catalog has modules.
C17_CyclicIncludesEachModuleOnce ==
    /\ rpc = "selected" => ENABLED StepAddIncluded
    /\ rpc = "closed" =>
        /\ NoDup(visits)
        /\ Range(visits) = Range(ModuleNamesOf(closure))
        /\ Len(visits) <= Len(catalog)

\* One module is selected, it lies on a cycle of includes through the whole
\* catalog, and the traversal has been through the three modules.
C17_Witness ==
    /\ rpc = "closed"
    /\ Len(selected) = 1
    /\ OnIncludeCycle(catalog, selected[1])
    /\ selected[1].name \notin Range(selected[1].includes)
    /\ \A i \in DOMAIN catalog : Len(catalog[i].includes) = 1
    /\ Len(visits) = Len(catalog)

\* Two different modules that each list the other in `excludes`.
MutuallyExclude(x, y) ==
    /\ x.name # y.name
    /\ y.name \in Range(x.excludes)
    /\ x.name \in Range(y.excludes)

\* C18: filterExcludedModules returns whatever the `excludes` are; two
\* modules of the closure that exclude each other are both dropped and both
\* named in the diagnostic; handleModuleSelection returns the empty list
\* exactly when the filter leaves nothing.
C18_MutualExclusionDropsBoth ==
    /\ rpc = "closed" => ENABLED StepFilterExcluded
    /\ rpc \in {"filtered", "returnedAllExcluded"} =>
        /\ \A x, y \in Range(closure) :
              MutuallyExclude(x, y) =>
                  /\ x \notin Range(filtered)
                  /\ y \notin Range(filtered)
                  /\ {x.name, y.name} \subseteq excludedNames
        /\ (rpc = "returnedAllExcluded") <=> (filtered = <<>>)
    /\ rpc = "returnedAllExcluded" => resolved = <<>>

\* The closure is two modules that exclude each other, and the empty list
\* was returned with both names in the diagnostic.
C18_Witness ==
    /\ rpc = "returnedAllExcluded"
    /\ Len(closure) = 2
    /\ MutuallyExclude(closure[1], closure[2])
    /\ excludedNames = {closure[1].name, closure[2].name}
    /\ resolved = <<>>

\* No module of the closure other than m names m in its `excludes`.
NamedByNoOther(m) ==
    \A k \in DOMAIN closure :
        closure[k].name # m.name => m.name \notin Range(closure[k].excludes)

\* C20 as stated: a module of the closure that no other module of the
\* closure names in its `excludes` is in the filtered list, whatever its own
\* `excludes` holds.
C20_NeverRemovedByOwnExcludes ==
    rpc \in {"filtered", "returnedAllExcluded"} =>
        \A m \in Range(closure) : NamedByNoOther(m) => m \in Range(filtered)

\* C20, amended: a module of the closure that no other module of the closure
\* names in its `excludes` is in the filtered list exactly when its own
\* `excludes` does not hold its own name; the other names of its `excludes`
\* make no difference to it.
C20_RemovedByOwnExcludesOnlyIfSelfNamed ==
    rpc \in {"filtered", "returnedAllExcluded"} =>
        \A m \in Range(closure) :
            NamedByNoOther(m) =>
                /\ (m \in Range(filtered)) <=> (m.name \notin Range(m.excludes))
                /\ m.name \in Range(m.excludes) => m.name \in excludedNames

\* X excludes Y and stays while Y is dropped; Z, named by no other module,
\* names itself in its `excludes` and is dropped.
C20_Witness ==
    /\ rpc = "filtered"
    /\ \E x, y, z \in Range(closure) :
        /\ x.name # y.name /\ x.name # z.name /\ y.name # z.name
        /\ Range(x.excludes) = {y.name}
        /\ NamedByNoOther(x) /\ x \in Range(filtered)
        /\ y \notin Range(filtered)
        /\ Range(z.excludes) = {z.name}
        /\ NamedByNoOther(z) /\ z \notin Range(filtered)

\* Some module of the closure names m in its `excludes`.
ExcludedInClosure(m) ==
    \E k \in DOMAIN closure : m.name \in Range(closure[k].excludes)

\* C25: a module of the closure that some module of the closure excludes is
\* not in the filtered list, also when it was not selected and a module that
\* is in the filtered list includes it.
C25_ExclusionBeatsInclusion ==
    rpc \in {"filtered", "returnedAllExcluded"} =>
        \A s \in Range(filtered) : \A n \in Range(closure) :
            (/\ n \notin Range(selected)
             /\ n.name \in Range(s.includes)
             /\ ExcludedInClosure(n)) => n \notin Range(filtered)

\* The filtered list is not closed under `includes`: it holds a module
\* while a module that this one includes, and that only the closure brought
\* in, was dropped.
C25_Witness ==
    /\ rpc = "filtered"
    /\ \E s \in Range(filtered) : \E n \in Range(closure) :
        /\ n \notin Range(selected)
        /\ n.name \in Range(s.includes)
        /\ n \notin Range(filtered)
        /\ ~ClosedUnderIncludes(Range(ModuleNamesOf(filtered)), catalog)

\* C26: the filter works on the closure as it was taken: a module that the
\* filter drops still drops the modules of the closure it excludes, and the
\* modules it includes are in the closure and stay unless a module of the
\* closure excludes them.
C26_ClosureNotRecomputed ==
    rpc \in {"filtered", "returnedAllExcluded"} =>
        \A y \in Range(closure) :
            y \notin Range(filtered) =>
                /\ \A z \in Range(closure) :
                      z.name \in Range(y.excludes) => z \notin Range(filtered)
                /\ \A z \in Range(catalog) :
                      z.name \in Range(y.includes) =>
                          /\ z \in Range(closure)
                          /\ ~ExcludedInClosure(z) => z \in Range(filtered)

\* Y is dropped; Z, which Y alone includes and nobody selected, is in the
\* filtered list; W, which Y alone excludes, is dropped.
C26_Witness ==
    /\ rpc = "filtered"
    /\ \E y, z, w \in Range(closure) :
        /\ y \notin Range(filtered)
        /\ z.name \in Range(y.includes)
        /\ z \notin Range(selected)
        /\ \A k \in DOMAIN closure :
              closure[k] # y => z.name \notin Range(closure[k].includes)
        /\ z \in Range(filtered)
        /\ w.name \in Range(y.excludes)
        /\ \A k \in DOMAIN closure :
              closure[k] # y => w.name \notin Range(closure[k].excludes)
        /\ w \notin Range(filtered)

Guarded == guardCall # <<>> /\ guardCall[1].instruction.condition # NoCondition

GuardGroup == guardCall[1].instruction.condition

\* The per-condition results the call returned.
GuardResults == guardCall[1].returned.results[1]

\* The target of a condition, or the path of the instruction that owns it.
OwnOrInstructionPath(c) ==
    IF c.target = Undefined THEN guardCall[1].instruction.path ELSE c.target

\* There is no file at the path, or its read is refused.
CannotBeRead(path) == fs[path] \in {NoFile, Unreadable}

\* C21: shouldExecuteInstruction returns for every guard and tree, with a
\* boolean for the guard and for each condition; a PATTERN_EXISTS condition
\* whose file is absent or cannot be read has not passed, a
\* PATTERN_NOT_EXISTS condition whose file is absent or cannot be read has
\* passed.
C21_ConditionsNeverRaise ==
    /\ guardCall = <<>> => ENABLED CallShouldExecute
    /\ Guarded =>
        /\ guardCall[1].returned.should \in BOOLEAN
        /\ DOMAIN GuardResults = DOMAIN GuardGroup.conditions
        /\ \A k \in DOMAIN GuardResults :
            LET c == GuardGroup.conditions[k]
            IN /\ GuardResults[k].passed \in BOOLEAN
               /\ CannotBeRead(OwnOrInstructionPath(c)) =>
                    /\ c.type = "PATTERN_EXISTS" => ~GuardResults[k].passed
                    /\ c.type = "PATTERN_NOT_EXISTS" => GuardResults[k].passed

\* A PATTERN_NOT_EXISTS condition without target was evaluated while the
\* read of the file of the instruction is refused, and it passed.
C21_Witness ==
    /\ Guarded
    /\ fs[PathF] = Unreadable
    /\ Len(GuardGroup.conditions) = 1
    /\ GuardGroup.conditions[1].type = "PATTERN_NOT_EXISTS"
    /\ GuardGroup.conditions[1].target = Undefined
    /\ GuardResults[1].passed
    /\ guardCall[1].returned.should

\* The occurrences of a pattern in a text, found from left to right, the
\* search going on behind each occurrence; the empty pattern occurs at every
\* position of the text, its end included.
RECURSIVE ScanCount(_, _)
ScanCount(text, pattern) ==
    IF pattern = <<>> THEN Len(text) + 1
    ELSE IF Len(text) < Len(pattern) THEN 0
    ELSE IF SubSeq(text, 1, Len(pattern)) = pattern
         THEN 1 + ScanCount(SubSeq(text, Len(pattern) + 1, Len(text)), pattern)
         ELSE ScanCount(Tail(text), pattern)

\* The comparison an operator names, EQUALS when there is none.
Satisfies(n, operator, m) ==
    \/ operator \in {"EQUALS", "undefined"} /\ n = m
    \/ operator = "NOT_EQUALS" /\ n # m
    \/ operator = "GREATER_THAN" /\ n > m
    \/ operator = "LESS_THAN" /\ n < m
    \/ operator = "GREATER_OR_EQUAL" /\ n >= m
    \/ operator = "LESS_OR_EQUAL" /\ n <= m

\* The value of a condition as a pattern, and its count, 0 when absent.
ValueOrEmpty(c) == IF c.value = Undefined THEN <<>> ELSE c.value

CountOrZero(c) == IF c.count = <<>> THEN 0 ELSE c.count[1]

\* What is at the path condition k of the guard is evaluated against.
CountedText(k) == fs[OwnOrInstructionPath(GuardGroup.conditions[k])]

\* PATTERN_COUNT condition k of the guard has the verdict the count n gives
\* it: not passed without the file, else the comparison of n.
CountVerdict(k, n) ==
    LET c == GuardGroup.conditions[k]
        path == OwnOrInstructionPath(c)
    IN /\ fs[path] = NoFile => ~GuardResults[k].passed
       /\ ~CannotBeRead(path) =>
            (GuardResults[k].passed <=> Satisfies(n, c.operator, CountOrZero(c)))

\* C22 as stated: a PATTERN_COUNT condition passes exactly when the number
\* of non-overlapping occurrences of its value in the file satisfies the
\* comparison, and it does not pass when the file does not exist.
C22_CountOfOccurrencesCompared ==
    Guarded =>
        \A k \in DOMAIN GuardResults :
            GuardGroup.conditions[k].type = "PATTERN_COUNT" =>
                CountVerdict(k, ScanCount(CountedText(k),
                                          ValueOrEmpty(GuardGroup.conditions[k])))

\* What is counted: the occurrences of a non-empty value; for an absent or
\* empty value, the number of characters of the file less one.
OccurrencesOrLengthLessOne(text, pattern) ==
    IF pattern = <<>> THEN Len(text) - 1 ELSE ScanCount(text, pattern)

\* C22, amended: the same for a non-empty value; a condition without value
\* compares the number of characters of the file less one, -1 for an empty
\* file.
C22_CountComparedForNonEmptyValue ==
    Guarded =>
        \A k \in DOMAIN GuardResults :
            GuardGroup.conditions[k].type = "PATTERN_COUNT" =>
                CountVerdict(k, OccurrencesOrLengthLessOne(CountedText(k),
                                    ValueOrEmpty(GuardGroup.conditions[k])))

\* The file is "aaa", the condition counts "aa" with EQUALS 1 and passed:
\* the second "aa", which overlaps the first, is not counted.
C22_Witness ==
    /\ Guarded
    /\ fs[PathF] = <<"a", "a", "a">>
    /\ Len(GuardGroup.conditions) = 1
    /\ GuardGroup.conditions[1].type = "PATTERN_COUNT"
    /\ GuardGroup.conditions[1].value = <<"a", "a">>
    /\ GuardGroup.conditions[1].target = Undefined
    /\ GuardGroup.conditions[1].operator = "EQUALS"
    /\ GuardGroup.conditions[1].count = <<1>>
    /\ GuardResults[1].passed

\* C23: the guard returns one result per condition of the group, the k-th
\* being the result of the k-th condition, whatever the outcome; under AND,
\* and without logic, the guard passes iff every condition passed, so an
\* empty group passes; under OR it passes iff some condition passed.
C23_GroupTraceIsComplete ==
    Guarded =>
        /\ Len(GuardResults) = Len(GuardGroup.conditions)
        /\ \A k \in DOMAIN GuardGroup.conditions :
              GuardResults[k] = EvaluateCondition(GuardGroup.conditions[k],
                                    guardCall[1].context,
                                    guardCall[1].instruction.path, fs)
        /\ GuardGroup.logic \in {"AND", "undefined"} =>
              (guardCall[1].returned.should <=>
                  \A k \in DOMAIN GuardResults : GuardResults[k].passed)
        /\ GuardGroup.logic = "OR" =>
              (guardCall[1].returned.should <=>
                  \E k \in DOMAIN GuardResults : GuardResults[k].passed)
        /\ (GuardGroup.conditions = <<>> /\ GuardGroup.logic # "OR") =>
              guardCall[1].returned.should

\* A group without logic whose first condition failed and whose second
\* passed: the guard failed and both results were returned.
C23_Witness ==
    /\ Guarded
    /\ GuardGroup.logic = "undefined"
    /\ Len(GuardGroup.conditions) = 2
    /\ Len(GuardResults) = 2
    /\ ~GuardResults[1].passed
    /\ GuardResults[2].passed
    /\ ~guardCall[1].returned.should

\* The kinds of condition that inspect a file.
FileKinds == {"FILE_EXISTS", "FILE_NOT_EXISTS"}

PatternKinds == {"PATTERN_EXISTS", "PATTERN_NOT_EXISTS", "PATTERN_COUNT"}

\* Condition k of the guard got the result the same condition gets with
\* `path` as its own target.
EvaluatedAgainst(k, path) ==
    GuardResults[k] =
        EvaluateCondition([GuardGroup.conditions[k] EXCEPT !.target = path],
                          guardCall[1].context, guardCall[1].instruction.path, fs)

\* C24 as stated: a condition of a kind that inspects a file and has no
\* target is evaluated against the path of its instruction.
C24_NoTargetMeansInstructionPath ==
    Guarded =>
        \A k \in DOMAIN GuardResults :
            LET c == GuardGroup.conditions[k]
            IN (c.type \in PatternKinds \cup FileKinds /\ c.target = Undefined) =>
                  EvaluatedAgainst(k, guardCall[1].instruction.path)

\* C24, amended: a PATTERN condition without target is evaluated against
\* the path of its instruction; a FILE condition without target is
\* evaluated against its value taken as a path, and without value it finds
\* no file, whatever is at the path of the instruction.
C24_NoTargetMeansPathOrValue ==
    Guarded =>
        \A k \in DOMAIN GuardResults :
            LET c == GuardGroup.conditions[k]
            IN c.target = Undefined =>
                /\ c.type \in PatternKinds =>
                      EvaluatedAgainst(k, guardCall[1].instruction.path)
                /\ (c.type \in FileKinds /\ c.value # Undefined) =>
                      EvaluatedAgainst(k, c.value)
                /\ (c.type \in FileKinds /\ c.value = Undefined) =>
                      (GuardResults[k].passed <=> c.type = "FILE_NOT_EXISTS")

\* A FILE_EXISTS condition without target, whose value is the path of the
\* other file, passed while the file of the instruction is absent.
C24_Witness ==
    /\ Guarded
    /\ fs[PathF] = NoFile
    /\ fs[PathG] # NoFile
    /\ Len(GuardGroup.conditions) = 1
    /\ GuardGroup.conditions[1].type = "FILE_EXISTS"
    /\ GuardGroup.conditions[1].target = Undefined
    /\ GuardGroup.conditions[1].value = PathG
    /\ GuardResults[1].passed

\* ---- Failed instructions and the summary (BatchSpec) ----
\* The files there are in a tree.
FilesOf(tree) == {p \in Paths : ExistsSync(tree, p)}

\* C27: a turn that threw did so because a required field of its
\* instruction is missing or because its action reads a target that does
\* not exist, and it left the tree as it found it: the same files with the
\* same contents.
C27_FailedInstructionWritesNothing ==
    \A k \in Turns :
        outcomes[k] = "throw" =>
            /\ \/ RequiredFieldMissing(InstructionOf(k))
               \/ ReadDependent(InstructionOf(k).action) /\ TargetMissing(k)
            /\ FilesOf(TreeAfter(k)) = FilesOf(treesBefore[k])
            /\ \A p \in Paths : TreeAfter(k)[p] = treesBefore[k][p]

\* A CREATE_FILE without content on a path without file and an edit of a
\* file that is not there have both thrown, and there is still no file at
\* either path.
C27_Witness ==
    /\ Len(outcomes) = 2
    /\ outcomes = <<"throw", "throw">>
    /\ \E j, k \in Turns :
        /\ InstructionOf(j).action = "CREATE_FILE"
        /\ RequiredFieldMissing(InstructionOf(j))
        /\ ReadDependent(InstructionOf(k).action)
        /\ ~RequiredFieldMissing(InstructionOf(k))
        /\ TargetMissing(j) /\ TargetMissing(k)
    /\ FilesOf(fs) = FilesOf(fs0)

\* This step is a turn of the loop of processInstructions.
TurnStep == call.pc = "running" /\ Len(outcomes') = Len(outcomes) + 1

\* C28: every turn of the loop adds one to exactly one of the two counters:
\* to `executed` when processInstruction returned true, to `skipped` when it
\* returned false and when it threw; so a call that returns has
\* executed + skipped = the number of its instructions.
C28_OneCounterPerInstruction ==
    [][/\ TurnStep =>
            LET outcome == outcomes'[Len(outcomes')]
            IN /\ outcome = "true" =>
                    /\ call'.executed = call.executed + 1
                    /\ call'.skipped = call.skipped
               /\ outcome \in {"false", "throw"} =>
                    /\ call'.skipped = call.skipped + 1
                    /\ call'.executed = call.executed
       /\ call'.pc = "returned" =>
            call'.executed + call'.skipped = Len(call'.instructions)]_vars

\* A returned call of two instructions, the first applied and the second
\* failed: one is counted under each counter.
C28_Witness ==
    /\ call.pc = "returned"
    /\ outcomes = <<"true", "throw">>
    /\ call.executed = 1
    /\ call.skipped = 1

\* ---- Empty strings in the fields of an instruction (ActionSpec) ----
\* content, pattern, componentName or propName is required by the action of
\* the instruction and is the empty string.
RequiredFieldEmpty(ins) ==
    CASE ins.action \in {"CREATE_FILE", "INSERT_IMPORT", "APPEND_TO_FILE"} ->
            ins.content = <<>>
      [] ins.action \in {"INSERT_AFTER", "INSERT_BEFORE"} ->
            ins.pattern = <<>> \/ ins.content = <<>>
      [] ins.action = "REPLACE_CONTENT" -> ins.pattern = <<>>
      [] ins.action = "INSERT_PROP" ->
            ins.componentName = <<>> \/ ins.propName = <<>>
      [] OTHER -> FALSE

\* C29: an instruction that its guard does not skip and that gives a
\* required content, pattern, componentName or propName as the empty string
\* throws and leaves the tree as it was; REPLACE_CONTENT with a pattern and
\* the empty string as replacement is applied to an existing file and
\* writes the text without the occurrences of the pattern.
C29_EmptyStringIsMissingExceptReplacement ==
    \A k \in Turns :
        LET ins == InstructionOf(k)
        IN ~GuardFails(k) =>
            /\ RequiredFieldEmpty(ins) =>
                  /\ outcomes[k] = "throw"
                  /\ TreeAfter(k) = treesBefore[k]
            /\ (/\ ins.action = "REPLACE_CONTENT"
                /\ ~NotGiven(ins.pattern)
                /\ ins.replacement = <<>>
                /\ ~TargetMissing(k)) =>
                  /\ outcomes[k] = "true"
                  /\ TextAfter(k) = ScanReplace(TextBefore(k), ins.pattern, <<>>)
                  /\ OnlyTargetChanged(k)

\* CREATE_FILE with the empty string as content threw where there was no
\* file, and there is none; in the same call the same instruction threw
\* again.
C29_Witness ==
    /\ call.pc = "returned"
    /\ Len(outcomes) = 2
    /\ InstructionOf(1).action = "CREATE_FILE"
    /\ InstructionOf(1).content = <<>>
    /\ InstructionOf(1).condition = NoCondition
    /\ outcomes = <<"throw", "throw">>
    /\ fs0[PathF] = NoFile
    /\ fs[PathF] = NoFile

\* ---- The log directory cannot be written (LogFailureSpec) ----
\* The guard of turn k passed and its action went through on the tree the
\* turn found.
MutationApplied(k) ==
    /\ ~GuardFails(k)
    /\ ApplyAction(InstructionOf(k), treesBefore[k]).error = ""

\* C30: under verbose, while the log cannot be written, a turn whose action
\* went through threw all the same and is counted under `skipped`, no
\* record of it is in the store, and what its action wrote is in the tree;
\* `executed` counts the turns that returned true, none of these.
C30_LogFailureFailsAppliedInstruction ==
    (call.pc \in {"running", "returned"} /\ VerboseOf(call.context[1]) /\ ~logDirWritable) =>
        /\ \A k \in Turns :
              MutationApplied(k) =>
                  /\ outcomes[k] = "throw"
                  /\ TreeAfter(k) = ApplyAction(InstructionOf(k), treesBefore[k]).tree
        /\ logs = {}
        /\ call.executed = CountOf("true")
        /\ call.executed = 0
        /\ call.skipped = Len(outcomes)

\* A verbose call has returned with executed = 0 and skipped = 2 while the
\* actions of both its instructions were applied and changed the tree.
C30_Witness ==
    /\ call.pc = "returned"
    /\ VerboseOf(call.context[1])
    /\ ~logDirWritable
    /\ Len(outcomes) = 2
    /\ \A k \in Turns : MutationApplied(k) /\ TreeAfter(k) # treesBefore[k]
    /\ call.executed = 0
    /\ call.skipped = 2
====
